---- MODULE Spec2Model ----
(***************************************************************************)
(* The OpenCode service supervisors of the VS Code extension               *)
(* (src/unnamed/part_003): the SDK-based manager (lines 1-334) and the     *)
(* process-spawning manager (lines 336-1073).                              *)
(*                                                                         *)
(* JavaScript runs each callback to its next await without interruption,   *)
(* so one action of the model is one such run: the synchronous prefix of   *)
(* a call, the continuation of an await, an event listener, a timer        *)
(* callback.  Outcomes decided outside the program (an HTTP probe, a       *)
(* spawn, the text a process prints, the moment a process exits) are       *)
(* inputs chosen with \E.                                                  *)
(*                                                                         *)
(* Strings are sequences of tokens (<<"/", "api">> is '/api'), so that     *)
(* trim, startsWith, endsWith and replace(/\/+$/, '') are computed.        *)
(* Timestamps (lastStartAt, lastConnectedAt) are not modelled.             *)
(***************************************************************************)
EXTENDS Integers, Sequences, FiniteSets, TLC

\* ------------------------------------------------------------------ bounds
MaxStarts == 2      \* start() runs (direct or through restart) per behaviour
MaxRestarts == 1    \* restart() calls per behaviour
MaxRounds == 1      \* failed probe rounds of one readiness wait
MaxStartsEach == 1  \* start() runs of each manager when there are two
MaxConnecting == 2  \* connect() calls of the mobile store under way at once

\* ------------------------------------------------------------------ values
Undefined == <<"undefined">>          \* JavaScript undefined / null for strings
NoPort == 0                           \* detectedPort === null
NoProc == 0                           \* childProcess === null
NoTimer == 0                          \* healthCheckInterval === null
NoServer == 0                         \* server === null
NullCode == -1                        \* exit code null (killed by a signal)

DEFAULT_OPENCODE_PORT == 4096
EphemeralPorts == {51723}
API_PREFIX_CANDIDATES == << <<>>, <<"/", "api">> >>

Threads == {1, 2}
Statuses == {"disconnected", "connecting", "connected", "error"}

\* ------------------------------------------------------------------ strings
RECURSIVE trimStart(_)
trimStart(s) == IF s # <<>> /\ Head(s) = " " THEN trimStart(Tail(s)) ELSE s

RECURSIVE trimEnd(_)
trimEnd(s) ==
  IF s # <<>> /\ s[Len(s)] = " " THEN trimEnd(SubSeq(s, 1, Len(s) - 1)) ELSE s

trim(s) == trimEnd(trimStart(s))

RECURSIVE stripTrailingSlashes(_)
stripTrailingSlashes(s) ==
  IF s # <<>> /\ s[Len(s)] = "/"
  THEN stripTrailingSlashes(SubSeq(s, 1, Len(s) - 1))
  ELSE s

startsWith(s, p) == Len(s) >= Len(p) /\ SubSeq(s, 1, Len(p)) = p
endsWith(s, p) == Len(s) >= Len(p) /\ SubSeq(s, Len(s) - Len(p) + 1, Len(s)) = p

lowerCase(piece) ==
  CASE piece = "JSON" -> "json"
    [] piece = "Application/" -> "application/"
    [] piece = "TEXT/HTML" -> "text/html"
    [] piece = ".EXE" -> ".exe"
    [] OTHER -> piece

toLowerCase(s) == [i \in 1..Len(s) |-> lowerCase(s[i])]

isNonBlankString(v) == v # Undefined /\ Len(trim(v)) > 0

VARIABLES
  impl,                 \* "spawn": process-spawning manager, "sdk": SDK-based manager
  configuredApiUrl,     \* config.get('apiUrl') || ''
  binEnv,               \* what resolveCliPath finds on the machine: environment, files, PATH
  cliAvailable,         \* cliPath !== null (fixed at construction)
  overlap,              \* TRUE when the caller may enter a call while another is suspended
  silent,               \* TRUE once the service answers no probe any more and the caller calls no more
  store,                \* the remote-connection store of the mobile app (src/unnamed/part_001)
  input,                \* the arguments and the responses a function under study is applied to
  output,               \* << the value it returned >>, or << >> before it was applied
  tcp,                  \* the TCP ports of the machine: who listens where
  other,                \* a second manager constructed in the same program
  status,
  lastError,
  workingDirectory,
  startCount,
  restartCount,
  lastExitCode,
  detectedPort,
  apiPrefix,
  apiPrefixDetected,
  childProcess,         \* index into procs, or NoProc
  childKilled,          \* childProcess.killed of the object childProcess refers to
  healthCheckInterval,  \* the timer handle held, or NoTimer
  procs,                \* every process spawned so far
  activeTimers,         \* the interval timers not yet cleared
  inflight,             \* health-check callbacks suspended at await checkHealth
  calls,                \* per caller thread: where its start/stop/restart call is
  returned,             \* history: the call that returned in the last step, or "none"
  result,               \* history: << the value setWorkingDirectory resolved with >> in the last step
  server,               \* SDK manager: index into servers, or NoServer
  servers,              \* SDK manager: every server created so far
  managedApiUrlOverride,
  cliMissing,
  listeners,            \* the callbacks registered with onStatusChange
  shown,                \* the calls of vscode.window.showErrorMessage so far
  notified              \* history: the calls made to callbacks in the last step, in order

config == <<impl, configuredApiUrl, binEnv, cliAvailable, overlap, silent, store>>
env == <<config, input, output, tcp, other>>
mgrVars == <<status, lastError, workingDirectory, startCount, restartCount,
             lastExitCode, detectedPort, apiPrefix, apiPrefixDetected,
             childProcess, childKilled, healthCheckInterval, procs, activeTimers,
             server, servers, managedApiUrlOverride, cliMissing, listeners, shown>>
lifecycle == <<mgrVars, inflight, calls, returned, result, notified>>
vars == <<env, mgrVars, inflight, calls, returned, result, notified>>

\* The manager's closure state as one value, so that a handler's statements
\* compose in order.
Cur ==
  [status |-> status, lastError |-> lastError,
   workingDirectory |-> workingDirectory,
   startCount |-> startCount, restartCount |-> restartCount,
   lastExitCode |-> lastExitCode, detectedPort |-> detectedPort,
   apiPrefix |-> apiPrefix, apiPrefixDetected |-> apiPrefixDetected,
   childProcess |-> childProcess, childKilled |-> childKilled,
   healthCheckInterval |-> healthCheckInterval,
   procs |-> procs, activeTimers |-> activeTimers,
   server |-> server, servers |-> servers,
   managedApiUrlOverride |-> managedApiUrlOverride, cliMissing |-> cliMissing,
   listeners |-> listeners, shown |-> shown, notified |-> <<>>]

Commit(m) ==
  /\ status' = m.status
  /\ lastError' = m.lastError
  /\ workingDirectory' = m.workingDirectory
  /\ startCount' = m.startCount
  /\ restartCount' = m.restartCount
  /\ lastExitCode' = m.lastExitCode
  /\ detectedPort' = m.detectedPort
  /\ apiPrefix' = m.apiPrefix
  /\ apiPrefixDetected' = m.apiPrefixDetected
  /\ childProcess' = m.childProcess
  /\ childKilled' = (m.childProcess # NoProc /\ m.childKilled)
  /\ healthCheckInterval' = m.healthCheckInterval
  /\ procs' = m.procs
  /\ activeTimers' = m.activeTimers
  /\ server' = m.server
  /\ servers' = m.servers
  /\ managedApiUrlOverride' = m.managedApiUrlOverride
  /\ cliMissing' = m.cliMissing
  /\ listeners' = m.listeners
  /\ shown' = m.shown
  /\ notified' = m.notified

useConfiguredUrl == Len(trim(configuredApiUrl)) > 0

Idle == [pc |-> "idle", op |-> "none", ret |-> "none", portToUse |-> NoPort, rounds |-> 0]

\* ------------------------------------------------------------------ inputs
ConfiguredUrls == {<<>>, <<"http://remote:8080">>, <<"http://remote:8080", "/">>}
InitialDirectory == <<"/w1">>
WorkdirArgs == {Undefined, <<" ", "/w2", " ">>}
PathArgs == {<<"/w1">>, <<" ", "/w2">>, <<" ">>}
ExitCodes == {0, 1, NullCode}
\* A chunk of process output, as the matches the two regular expressions find
\* in it: urls lists the matches of URL_REGEX in order (port = match[1], path =
\* match[2] || ''), fallback is the port FALLBACK_PORT_REGEX captures (0: no match).
LogUrl(port, path) == [port |-> port, path |-> path]
LogTexts ==
  { [urls |-> <<>>, fallback |-> 0],
    [urls |-> <<>>, fallback |-> 51723],
    [urls |-> <<LogUrl(DEFAULT_OPENCODE_PORT, <<>>)>>, fallback |-> 0],
    [urls |-> <<LogUrl(51723, <<>>)>>, fallback |-> 0],
    [urls |-> <<LogUrl(DEFAULT_OPENCODE_PORT, <<"/", "api", "/">>)>>, fallback |-> 0],
    [urls |-> <<LogUrl(51723, <<"/", "api", "/", "v1">>)>>, fallback |-> 0],
    [urls |-> <<LogUrl(0, <<"/", "api">>)>>, fallback |-> DEFAULT_OPENCODE_PORT],
    [urls |-> <<LogUrl(51723, <<"/", "docs">>), LogUrl(DEFAULT_OPENCODE_PORT, <<"/", "api">>)>>,
     fallback |-> 0] }
SpawnErrors == {<<"spawn opencode ENOENT">>}

\* ------------------------------------------------------------------ resolveCliPath
\* The machine as resolveCliPath sees it.  envPaths are the values of
\* OPENCHAMBER_OPENCODE_PATH, OPENCHAMBER_OPENCODE_BIN, OPENCODE_PATH and
\* OPENCODE_BINARY in that order (Undefined: not set); files are the entries
\* statSync finds; pathDirs are the directories of the augmented PATH;
\* whereLines is what `where opencode` prints (win32), trimmed, without its
\* empty lines; shells are SHELL, /bin/bash, /bin/zsh and /bin/sh in that order,
\* each with what isExecutable says of it, the status `command -v opencode`
\* ends with in it (1 also when spawnSync throws) and the words it prints.
BinFile(filePath, isFile, xok) == [path |-> filePath, isFile |-> isFile, xok |-> xok]
Shell(executable, exitStatus, stdout) ==
  [executable |-> executable, status |-> exitStatus, stdout |-> stdout]
BinEnv(platform, envPaths, files, pathDirs, whereLines, shells) ==
  [platform |-> platform, envPaths |-> envPaths, files |-> files,
   pathDirs |-> pathDirs, whereLines |-> whereLines, shells |-> shells]

WellKnownBinPaths ==
  << <<"/opt/homebrew/bin/opencode">>, <<"/usr/local/bin/opencode">>, <<"/usr/bin/opencode">>,
     <<"~/.local/bin/opencode">>, <<"~/.opencode/bin/opencode">> >>

Boolean(v) == v # Undefined /\ v # <<>>

BIN_CANDIDATES(e) == SelectSeq(e.envPaths \o WellKnownBinPaths, Boolean)

isExecutable_NoAccessCheck(e, filePath) ==
  \E f \in e.files : f.path = filePath /\ f.isFile

isExecutable(e, filePath) ==
  \E f \in e.files : f.path = filePath /\ f.isFile /\ (e.platform = "win32" \/ f.xok)

join(directory, binaryName) == directory \o <<"/">> \o binaryName

\* The first path of a list that is executable, or Undefined.
RECURSIVE firstExecutable(_, _)
firstExecutable(e, paths) ==
  IF paths = <<>> THEN Undefined
  ELSE IF isExecutable(e, Head(paths)) THEN Head(paths)
  ELSE firstExecutable(e, Tail(paths))

RECURSIVE resolveFromCandidates(_, _)
resolveFromCandidates(e, candidates) ==
  IF candidates = <<>> THEN Undefined
  ELSE LET candidate == Head(candidates)
           withExe == candidate \o <<".exe">>
       IN IF isExecutable(e, candidate) THEN candidate
          ELSE IF e.platform = "win32" /\ ~endsWith(toLowerCase(candidate), <<".exe">>)
                  /\ isExecutable(e, withExe)
               THEN withExe
          ELSE resolveFromCandidates(e, Tail(candidates))

resolveBinaryFromPath_LastMatch(e, binaryName, directories) ==
  IF binaryName # <<>> /\ \E i \in 1..Len(directories) : isExecutable(e, join(directories[i], binaryName))
  THEN join(directories[CHOOSE i \in 1..Len(directories) :
                          /\ isExecutable(e, join(directories[i], binaryName))
                          /\ \A j \in (i + 1)..Len(directories) :
                               ~isExecutable(e, join(directories[j], binaryName))],
            binaryName)
  ELSE Undefined

RECURSIVE resolveBinaryFromPath(_, _, _)
resolveBinaryFromPath(e, binaryName, directories) ==
  IF binaryName = <<>> \/ directories = <<>> THEN Undefined
  ELSE IF isExecutable(e, join(Head(directories), binaryName))
       THEN join(Head(directories), binaryName)
       ELSE resolveBinaryFromPath(e, binaryName, Tail(directories))

\* The login-shell lookup: result.stdout.trim().split(/\s+/).pop() of the first
\* shell whose answer is executable.
RECURSIVE resolveFromShells(_, _)
resolveFromShells(e, shells) ==
  IF shells = <<>> THEN Undefined
  ELSE LET sh == Head(shells)
           candidate == IF sh.stdout = <<>> THEN <<>> ELSE <<sh.stdout[Len(sh.stdout)]>>
       IN IF sh.executable /\ sh.status = 0 /\ candidate # <<>> /\ isExecutable(e, candidate)
          THEN candidate
          ELSE resolveFromShells(e, Tail(shells))

resolveCliPath(e) ==
  LET explicit == resolveFromCandidates(e, BIN_CANDIDATES(e))
      fromShells == resolveFromShells(e, e.shells)
      fromWhere == firstExecutable(e, e.whereLines)
      fromPath == resolveBinaryFromPath(e, IF e.platform = "win32" THEN <<"opencode", ".exe">>
                                            ELSE <<"opencode">>,
                                        SelectSeq(e.pathDirs, Boolean))
  IN IF explicit # Undefined THEN explicit
     ELSE IF e.platform = "win32" /\ fromWhere # Undefined THEN fromWhere
     ELSE IF fromPath # Undefined THEN fromPath
     ELSE IF e.platform # "win32" /\ fromShells # Undefined THEN fromShells
     ELSE Undefined

\* The machines of the lifecycle specification: nothing installed; OPENCODE_BINARY
\* names a file without the execute permission and nothing else is installed;
\* the same override with the service installed in /usr/local/bin.
OverridePath == <<"/custom/opencode">>
NoEnvPaths == <<Undefined, Undefined, Undefined, Undefined>>
OverrideEnvPaths == <<Undefined, Undefined, Undefined, OverridePath>>
NothingInstalled == BinEnv("linux", NoEnvPaths, {}, << <<"/home/u/bin">> >>, <<>>, <<>>)
OverrideNotExecutable ==
  BinEnv("linux", OverrideEnvPaths, {BinFile(OverridePath, TRUE, FALSE)},
         << <<"/home/u/bin">> >>, <<>>, <<>>)
OverrideNotExecutableInstalled ==
  BinEnv("linux", OverrideEnvPaths,
         {BinFile(OverridePath, TRUE, FALSE), BinFile(<<"/usr/local/bin/opencode">>, TRUE, TRUE)},
         << <<"/home/u/bin">> >>, <<>>, <<>>)
BinEnvs == {NothingInstalled, OverrideNotExecutable, OverrideNotExecutableInstalled}

\* ------------------------------------------------------------------ the remote-connection store (src/unnamed/part_001)
\* A URL is a sequence of tokens: scheme, host, then '/' and '?token=' with its
\* value where the caller typed them.  connectedAt (Date.now()) is not modelled.
MAX_RECENT == 10
RemoteConnection(url, token, label) == [url |-> url, token |-> token, label |-> label]

\* What create() sets up; connecting are the connect() calls suspended at an
\* await, last is the history of the last step: the call that returned in it,
\* why, and with what value.
NoCall == [op |-> "none"]
NoConnection == RemoteConnection(Undefined, Undefined, Undefined)  \* null
InitialStore ==
  [currentConnection |-> NoConnection, isConnecting |-> FALSE, connectionError |-> Undefined,
   recentConnections |-> <<>>, connecting |-> <<>>, lastConnected |-> Undefined, last |-> NoCall]

\* url.trim(), the default scheme, replace(/\/+$/, '').
normalizeUrl(url) ==
  LET trimmed == trim(url)
      withScheme == IF ~startsWith(trimmed, <<"http://">>) /\ ~startsWith(trimmed, <<"https://">>)
                    THEN <<"https://">> \o trimmed
                    ELSE trimmed
  IN stripTrailingSlashes(withScheme)

\* new URL(normalizedUrl).searchParams.get('token'), Undefined for null.
searchParamsGetToken(url) ==
  IF \E i \in 1..(Len(url) - 1) : url[i] = "?token="
  THEN <<url[(CHOOSE i \in 1..(Len(url) - 1) : url[i] = "?token=") + 1]>>
  ELSE Undefined

\* searchParams.delete('token'), then urlObj.toString(): the path of a URL
\* without one is '/'.
deleteTokenToString(url) ==
  LET i == CHOOSE j \in 1..(Len(url) - 1) : url[j] = "?token="
      rest == SubSeq(url, 1, i - 1)
  IN IF Len(rest) = 2 THEN rest \o <<"/">> ELSE rest

hostname(url) == <<url[2]>>

OnlyHttpsMessage == <<"Only HTTPS connections are allowed. Use Cloudflare Tunnel.">>
TimedOutMessage == <<"Connection timed out">>
ServerReturnedMessage(httpStatus) == <<"Server returned ", ToString(httpStatus)>>
NotReadyStoreMessage == <<"OpenCode server is not ready">>

connectFailed_KeepConnecting(st, c, cause, message) ==
  [st EXCEPT !.connectionError = message,
             !.last = [op |-> "connect", cause |-> cause, value |-> FALSE]]

\* The catch block of connect (lines 124-133) and its return false.
connectFailed(st, c, cause, message) ==
  [st EXCEPT !.isConnecting = FALSE, !.connectionError = message,
             !.last = [op |-> "connect", cause |-> cause, value |-> FALSE]]

addRecent_NoFilter(recentConnections, connection) ==
  SubSeq(<<connection>> \o recentConnections, 1,
         IF Len(recentConnections) + 1 > MAX_RECENT THEN MAX_RECENT ELSE Len(recentConnections) + 1)

\* [connection, ...recentConnections.filter(c => c.url !== normalizedUrl)].slice(0, 10)
addRecent(recentConnections, connection) ==
  LET filteredRecent == SelectSeq(recentConnections, LAMBDA c : c.url # connection.url)
      newRecent == <<connection>> \o filteredRecent
  IN SubSeq(newRecent, 1, IF Len(newRecent) > MAX_RECENT THEN MAX_RECENT ELSE Len(newRecent))

\* The lines 105-123 of connect.
connectSucceeded(st, c) ==
  LET connection == RemoteConnection(c.url, c.token, hostname(c.url))
  IN [st EXCEPT !.currentConnection = connection, !.isConnecting = FALSE,
                !.recentConnections = addRecent(@, connection),
                !.lastConnected = c.url,
                !.last = [op |-> "connect", cause |-> "ok", value |-> TRUE]]

Remove(calls_, i) == SubSeq(calls_, 1, i - 1) \o SubSeq(calls_, i + 1, Len(calls_))

\* ------------------------------------------------------------------ messages
codeText(code) == IF code = NullCode THEN "null" ELSE ToString(code)
NotRespondingMessage == <<"OpenCode API at ">> \o configuredApiUrl \o <<" is not responding.">>
CliNotFoundMessage == <<"OpenCode CLI not found. Install it or set OPENCODE_BINARY env var.">>
FailedToStartMessage(message) == <<"Failed to start OpenCode: ">> \o message
NotReadyMessage == <<"OpenCode API did not become ready in time">>
ExitedMessage(code) == <<"OpenCode exited with code ", codeText(code)>>

\* ------------------------------------------------------------------ helpers of the process-spawning manager
\* listeners.forEach(cb => cb(status, error)): the calls, appended to the log.
RECURSIVE forEach(_, _, _, _)
forEach(log, cbs, newStatus, error) ==
  IF cbs = {} THEN log
  ELSE LET cb == CHOOSE c \in cbs : TRUE
       IN forEach(Append(log, [cb |-> cb, status |-> newStatus, error |-> error]),
                  cbs \ {cb}, newStatus, error)

setStatus_NotifyOnStatusOnly(m, newStatus, error) ==
  IF m.status # newStatus \/ m.lastError # error
  THEN [m EXCEPT !.status = newStatus, !.lastError = error,
                 !.notified = IF m.status # newStatus
                              THEN forEach(@, m.listeners, newStatus, error)
                              ELSE @]
  ELSE m

setStatus(m, newStatus, error) ==
  IF m.status # newStatus \/ m.lastError # error
  THEN [m EXCEPT !.status = newStatus, !.lastError = error,
                 !.notified = forEach(@, m.listeners, newStatus, error)]
  ELSE m

normalizeApiPrefix(prefix) ==
  LET trimmed == trim(prefix)
      withLeading == IF startsWith(trimmed, <<"/">>) THEN trimmed ELSE <<"/">> \o trimmed
  IN IF trimmed = <<>> \/ trimmed = <<"/">> THEN <<>>
     ELSE IF endsWith(withLeading, <<"/">>)
          THEN SubSeq(withLeading, 1, Len(withLeading) - 1)
          ELSE withLeading

inferPrefixFromLogPath(candidatePath) ==
  IF candidatePath = Undefined \/ candidatePath = <<>> THEN Undefined
  ELSE LET normalized == normalizeApiPrefix(candidatePath)
       IN IF normalized = <<"/", "api">> \/ startsWith(normalized, <<"/", "api", "/">>)
          THEN <<"/", "api">>
          ELSE Undefined

setDetectedApiPrefix(m, prefix) ==
  LET normalized == normalizeApiPrefix(prefix)
  IN IF ~m.apiPrefixDetected \/ m.apiPrefix # normalized
     THEN [m EXCEPT !.apiPrefix = normalized, !.apiPrefixDetected = TRUE]
     ELSE m

buildApiBaseUrlFromPort(m, port) ==
  LET prefix == normalizeApiPrefix(IF m.apiPrefixDetected THEN m.apiPrefix ELSE <<>>)
  IN <<"http://localhost:", ToString(port)>> \o prefix

setDetectedPort(m, port) == [m EXCEPT !.detectedPort = port]

RECURSIVE detectApiPrefixFromUrls(_, _)
detectApiPrefixFromUrls(m, urls) ==
  IF urls = <<>> THEN m
  ELSE LET match == Head(urls)
           inferred == inferPrefixFromLogPath(match.path)
       IN IF match.port <= 0 THEN detectApiPrefixFromUrls(m, Tail(urls))
          ELSE IF m.detectedPort # NoPort /\ match.port # m.detectedPort
               THEN detectApiPrefixFromUrls(m, Tail(urls))
          ELSE IF inferred # Undefined THEN setDetectedApiPrefix(m, inferred)
          ELSE detectApiPrefixFromUrls(m, Tail(urls))

detectApiPrefixFromOutput(m, text) == detectApiPrefixFromUrls(m, text.urls)

detectPortFromFallback_LastWins(m, text) ==
  IF text.fallback > 0 THEN setDetectedPort(m, text.fallback) ELSE m

detectPortFromFallback(m, text) ==
  IF text.fallback > 0
  THEN IF m.detectedPort # NoPort /\ m.detectedPort # text.fallback
       THEN m
       ELSE setDetectedPort(m, text.fallback)
  ELSE m

RECURSIVE detectPortFromUrls(_, _, _)
detectPortFromUrls(m, urls, text) ==
  IF urls = <<>> THEN detectPortFromFallback(m, text)
  ELSE LET match == Head(urls)
           inferred == inferPrefixFromLogPath(match.path)
           m1 == setDetectedPort(m, match.port)
       IN IF match.port > 0
          THEN IF m.detectedPort # NoPort /\ m.detectedPort # match.port
               THEN m
               ELSE IF inferred # Undefined THEN setDetectedApiPrefix(m1, inferred) ELSE m1
          ELSE detectPortFromUrls(m, Tail(urls), text)

detectPortFromOutput(m, text) == detectPortFromUrls(m, text.urls, text)

getApiUrl(m) ==
  IF useConfiguredUrl /\ configuredApiUrl # <<>>
  THEN stripTrailingSlashes(configuredApiUrl)
  ELSE IF m.detectedPort # NoPort
       THEN buildApiBaseUrlFromPort(m, m.detectedPort)
       ELSE Undefined

isFalsyUrl(url) == url = Undefined \/ url = <<>>

stopHealthCheck(m) ==
  IF m.healthCheckInterval # NoTimer
  THEN [m EXCEPT !.activeTimers = @ \ {m.healthCheckInterval},
                 !.healthCheckInterval = NoTimer]
  ELSE m

setInterval(m) == CHOOSE id \in 1..(Cardinality(m.activeTimers) + 1) : id \notin m.activeTimers

startHealthCheck_NoCancel(m) ==
  LET id == setInterval(m)
  IN [m EXCEPT !.healthCheckInterval = id, !.activeTimers = @ \cup {id}]

startHealthCheck(m) ==
  LET m1 == stopHealthCheck(m)
      id == setInterval(m1)
  IN [m1 EXCEPT !.healthCheckInterval = id, !.activeTimers = @ \cup {id}]

\* ------------------------------------------------------------------ processes
\* kill() throws only for a signal name it does not know; 'SIGTERM' and
\* 'SIGKILL' are known, and a child whose handle is held has not exited.
KillOutcomes == {"sent"}
SpawnOutcomes == {"running", "error", "throws"}

spawn(m, outcome) ==
  LET child == [state |-> IF outcome = "running" THEN "running" ELSE "failed",
                sigkill |-> FALSE]
  IN [m EXCEPT !.procs = Append(@, child), !.childProcess = Len(m.procs) + 1,
               !.childKilled = FALSE]

\* childProcess.kill(signal) on a live child: the signal is sent and .killed is set.
kill(m, signal) ==
  [m EXCEPT !.childKilled = TRUE,
            !.procs[m.childProcess].sigkill = (@ \/ signal = "SIGKILL")]

exitCodeIsNull(m) == m.procs[m.childProcess].state # "exited"

Alive(p) == procs[p].state = "running" /\ ~procs[p].sigkill
LiveProcs == {p \in 1..Len(procs) : Alive(p)}

onChildError_NoMessage(m, message) ==
  [setStatus(m, "error", Undefined) EXCEPT !.childProcess = NoProc]

\* childProcess.on('error', ...)
onChildError(m, message) ==
  [setStatus(m, "error", FailedToStartMessage(message)) EXCEPT !.childProcess = NoProc]

onChildExit_ErrorOnFailure(m, code) ==
  LET m1 == IF m.status # "disconnected"
            THEN IF code # 0 THEN setStatus(m, "error", ExitedMessage(code))
                 ELSE setStatus(m, "disconnected", Undefined)
            ELSE m
  IN [m1 EXCEPT !.childProcess = NoProc, !.detectedPort = NoPort,
                !.lastExitCode = code]

\* childProcess.on('exit', ...)
onChildExit(m, code) ==
  LET m1 == IF m.status # "disconnected"
            THEN setStatus(m, "disconnected",
                           IF code # 0 THEN ExitedMessage(code) ELSE Undefined)
            ELSE m
  IN [m1 EXCEPT !.childProcess = NoProc, !.detectedPort = NoPort,
                !.lastExitCode = code]

\* ------------------------------------------------------------------ stop()
\* stop() up to its await (or to its end when it does not await).
stopEnter(m, killOutcome) ==
  LET m1 == stopHealthCheck(m)
  IN IF m1.childProcess # NoProc
     THEN IF killOutcome = "sent"
          THEN [m |-> kill(m1, "SIGTERM"), pc |-> "stop_grace"]
          ELSE [m |-> setStatus([m1 EXCEPT !.childProcess = NoProc, !.detectedPort = NoPort],
                                "disconnected", Undefined),
                pc |-> "return"]
     ELSE [m |-> setStatus([m1 EXCEPT !.detectedPort = NoPort], "disconnected", Undefined),
           pc |-> "return"]

stopAfterGrace_KeepPort(m) ==
  setStatus([m EXCEPT !.childProcess = NoProc], "disconnected", Undefined)

\* stop() after the SHUTDOWN_TIMEOUT_MS sleep.
stopAfterGrace(m) ==
  LET m1 == IF m.childProcess # NoProc /\ ~m.childKilled /\ exitCodeIsNull(m)
            THEN kill(m, "SIGKILL")
            ELSE m
  IN setStatus([m1 EXCEPT !.childProcess = NoProc, !.detectedPort = NoPort],
               "disconnected", Undefined)

\* ------------------------------------------------------------------ start()
resetDetection(m) ==
  [m EXCEPT !.detectedPort = NoPort, !.apiPrefix = <<>>,
            !.apiPrefixDetected = FALSE, !.lastExitCode = NullCode]

startManaged_IgnoreCli(m) ==
  [m |-> resetDetection(setStatus(m, "connecting", Undefined)), pc |-> "start_port"]

\* vscode.window.showErrorMessage(...): one more notification on the screen.
showErrorMessage(m) == [m EXCEPT !.shown = @ + 1]

\* start() from the cliAvailable check to the await of the port choice.
startManaged(m) ==
  IF ~cliAvailable
  THEN [m |-> showErrorMessage(setStatus(m, "error", CliNotFoundMessage)), pc |-> "return"]
  ELSE [m |-> resetDetection(setStatus(m, "connecting", Undefined)), pc |-> "start_port"]

startEnter_IgnoreConfig(m, workdir) ==
  LET m1 == [m EXCEPT !.startCount = @ + 1]
  IN IF ~isFalsyUrl(getApiUrl(m1))
     THEN [m |-> m1, pc |-> "start_existing"]
     ELSE startManaged(m1)

\* start() up to its first await.
startEnter(m, workdir) ==
  LET m1 == [m EXCEPT !.startCount = @ + 1,
                      !.workingDirectory = IF isNonBlankString(workdir) THEN trim(workdir) ELSE @]
  IN IF useConfiguredUrl /\ configuredApiUrl # <<>>
     THEN [m |-> setStatus(m1, "connecting", Undefined), pc |-> "start_external"]
     ELSE IF ~isFalsyUrl(getApiUrl(m1))
          THEN [m |-> m1, pc |-> "start_existing"]
          ELSE startManaged(m1)

Suspend(t, c) == calls' = [calls EXCEPT ![t] = c] /\ returned' = "none" /\ result' = <<>>
Resume(t, pc) == Suspend(t, [calls[t] EXCEPT !.pc = pc])
Return(t, op) == calls' = [calls EXCEPT ![t] = Idle] /\ returned' = op /\ result' = <<>>
\* An exception that no try block of the call catches: its promise rejects.
Reject(t) == calls' = [calls EXCEPT ![t] = Idle] /\ returned' = "rejected" /\ result' = <<>>
Goto(t, r) == IF r.pc = "return" THEN Return(t, calls[t].op) ELSE Resume(t, r.pc)
Event == returned' = "none" /\ result' = <<>> /\ UNCHANGED calls

\* stop() returns to restart() (which sleeps next) or to the caller.
AfterStop(t, r) ==
  IF r.pc = "return"
  THEN IF calls[t].ret = "restart" THEN Resume(t, "restart_sleep") ELSE Return(t, calls[t].op)
  ELSE Resume(t, r.pc)

CanEnter(t) ==
  /\ calls[t].pc = "idle"
  /\ overlap \/ (t = 1 /\ \A u \in Threads : calls[u].pc = "idle")

IsSpawn == impl = "spawn"

Start(t, workdir) ==
  /\ IsSpawn /\ CanEnter(t) /\ startCount < MaxStarts
  /\ LET r == startEnter(Cur, workdir)
     IN /\ Commit(r.m)
        /\ IF r.pc = "return" THEN Return(t, "start")
           ELSE Suspend(t, [Idle EXCEPT !.pc = r.pc, !.op = "start", !.ret = "caller"])
  /\ UNCHANGED <<env, inflight>>

StartExternalProbe_NoCheck(t, healthy) ==
  /\ IsSpawn /\ calls[t].pc = "start_external"
  /\ Commit(startHealthCheck(setStatus(Cur, "connected", Undefined)))
  /\ Return(t, calls[t].op)
  /\ UNCHANGED <<env, inflight>>

\* start() in external mode, after await checkReady(configuredApiUrl, ...).
StartExternalProbe(t, healthy) ==
  /\ IsSpawn /\ calls[t].pc = "start_external"
  /\ Commit(IF healthy
            THEN startHealthCheck(setStatus(Cur, "connected", Undefined))
            ELSE setStatus(Cur, "error", NotRespondingMessage))
  /\ Return(t, calls[t].op)
  /\ UNCHANGED <<env, inflight>>

StartExistingProbe_AlwaysSpawn(t, healthy) ==
  /\ IsSpawn /\ calls[t].pc = "start_existing"
  /\ LET r == startManaged(Cur)
     IN Commit(r.m) /\ Goto(t, r)
  /\ UNCHANGED <<env, inflight>>

\* start() in managed mode, after await checkReady(currentUrl, ...).
StartExistingProbe(t, healthy) ==
  /\ IsSpawn /\ calls[t].pc = "start_existing"
  /\ LET r == IF healthy
              THEN [m |-> startHealthCheck(setStatus(Cur, "connected", Undefined)), pc |-> "return"]
              ELSE startManaged(Cur)
     IN Commit(r.m) /\ Goto(t, r)
  /\ UNCHANGED <<env, inflight>>

StartSpawn_NoCatch(t, port, outcome, message) ==
  /\ IsSpawn /\ calls[t].pc = "start_port"
  /\ IF port = NoPort \/ outcome = "throws"
     THEN /\ Commit(Cur)
          /\ Reject(t)
     ELSE /\ LET m1 == setDetectedPort(spawn(Cur, outcome), port)
             IN Commit(IF outcome = "error" THEN onChildError(m1, message) ELSE m1)
          /\ Suspend(t, [calls[t] EXCEPT !.pc = "start_wait", !.portToUse = port, !.rounds = 0])
  /\ UNCHANGED <<env, inflight>>

\* isTcpPortAvailable / getEphemeralPort, then spawn and the listeners' registration.
\* A failed spawn emits 'error' on the next tick, before any other callback runs.
\* port is what the port choice gave (NoPort: getEphemeralPort rejected).
startSpawn(t, port, outcome, message) ==
  /\ IsSpawn /\ calls[t].pc = "start_port"
  /\ IF port = NoPort \/ outcome = "throws"
     THEN /\ Commit(setStatus(Cur, "error", FailedToStartMessage(message)))
          /\ Return(t, calls[t].op)
     ELSE /\ LET m1 == setDetectedPort(spawn(Cur, outcome), port)
             IN Commit(IF outcome = "error" THEN onChildError(m1, message) ELSE m1)
          /\ Suspend(t, [calls[t] EXCEPT !.pc = "start_wait", !.portToUse = port, !.rounds = 0])
  /\ UNCHANGED inflight

StartSpawn(t, port, outcome, message) ==
  startSpawn(t, port, outcome, message) /\ UNCHANGED env

\* One round of waitForOpenCodeReadyAtPort whose probe found a prefix.
StartReady(t, prefix) ==
  /\ IsSpawn /\ calls[t].pc = "start_wait"
  /\ Commit(startHealthCheck(setStatus(setDetectedApiPrefix(Cur, prefix), "connected", Undefined)))
  /\ Return(t, calls[t].op)
  /\ UNCHANGED <<env, inflight>>

\* One round whose probe found nothing, and the READY_CHECK_INTERVAL_MS sleep.
StartRetry(t) ==
  /\ IsSpawn /\ calls[t].pc = "start_wait" /\ calls[t].rounds < MaxRounds
  /\ Suspend(t, [calls[t] EXCEPT !.rounds = @ + 1])
  /\ notified' = <<>>
  /\ UNCHANGED <<env, mgrVars, inflight>>

StartTimeout_NoDeadline(t, killOutcome) ==
  /\ IsSpawn /\ calls[t].pc = "start_wait" /\ calls[t].rounds >= 1
  /\ Suspend(t, calls[t])
  /\ notified' = <<>>
  /\ UNCHANGED <<env, mgrVars, inflight>>

\* The deadline has passed: setStatus('error'), then await stop().
StartTimeout(t, killOutcome) ==
  /\ IsSpawn /\ calls[t].pc = "start_wait" /\ calls[t].rounds >= 1
  /\ LET r == stopEnter(setStatus(Cur, "error", NotReadyMessage), killOutcome)
     IN Commit(r.m) /\ AfterStop(t, r)
  /\ UNCHANGED <<env, inflight>>

Stop(t, killOutcome) ==
  /\ IsSpawn /\ CanEnter(t)
  /\ LET r == stopEnter(Cur, killOutcome)
     IN /\ Commit(r.m)
        /\ IF r.pc = "return" THEN Return(t, "stop")
           ELSE Suspend(t, [Idle EXCEPT !.pc = r.pc, !.op = "stop", !.ret = "caller"])
  /\ UNCHANGED <<env, inflight>>

StopAfterGrace(t) ==
  /\ IsSpawn /\ calls[t].pc = "stop_grace"
  /\ Commit(stopAfterGrace(Cur))
  /\ AfterStop(t, [pc |-> "return"])
  /\ UNCHANGED <<env, inflight>>

Restart_NoCount(t, killOutcome) ==
  /\ IsSpawn /\ CanEnter(t) /\ startCount < MaxStarts /\ restartCount < MaxRestarts
  /\ LET r == stopEnter(Cur, killOutcome)
     IN /\ Commit(r.m)
        /\ Suspend(t, [Idle EXCEPT !.pc = IF r.pc = "return" THEN "restart_sleep" ELSE r.pc,
                                    !.op = "restart", !.ret = "restart"])
  /\ UNCHANGED <<env, inflight>>

Restart(t, killOutcome) ==
  /\ IsSpawn /\ CanEnter(t) /\ startCount < MaxStarts /\ restartCount < MaxRestarts
  /\ LET r == stopEnter([Cur EXCEPT !.restartCount = @ + 1], killOutcome)
     IN /\ Commit(r.m)
        /\ Suspend(t, [Idle EXCEPT !.pc = IF r.pc = "return" THEN "restart_sleep" ELSE r.pc,
                                    !.op = "restart", !.ret = "restart"])
  /\ UNCHANGED <<env, inflight>>

\* restart() after its 250 ms sleep: start().
RestartSleep(t) ==
  /\ IsSpawn /\ calls[t].pc = "restart_sleep"
  /\ LET r == startEnter(Cur, Undefined)
     IN /\ Commit(r.m)
        /\ IF r.pc = "return" THEN Return(t, calls[t].op)
           ELSE Suspend(t, [calls[t] EXCEPT !.pc = r.pc, !.ret = "caller"])
  /\ UNCHANGED <<env, inflight>>

setWorkingDirectory_Disconnect(m, newPath) ==
  LET target == IF isNonBlankString(newPath) THEN trim(newPath) ELSE m.workingDirectory
  IN IF target = m.workingDirectory THEN m
     ELSE setStatus([m EXCEPT !.workingDirectory = target], "disconnected", Undefined)

\* setWorkingDirectory of either manager: the state it leaves.
setWorkingDirectory(m, newPath) ==
  LET target == IF isNonBlankString(newPath) THEN trim(newPath) ELSE m.workingDirectory
  IN IF target = m.workingDirectory THEN m ELSE [m EXCEPT !.workingDirectory = target]

\* The value setWorkingDirectory resolves with, on each of its three returns.
setWorkingDirectoryResult(m, newPath) ==
  [success |-> TRUE, restarted |-> FALSE,
   path |-> IF isNonBlankString(newPath) THEN trim(newPath) ELSE m.workingDirectory]

\* setWorkingDirectory has no await: it runs whole whenever the caller calls it,
\* also while a start, stop or restart is suspended.
SetWorkingDirectory(newPath) ==
  /\ Commit(setWorkingDirectory(Cur, newPath))
  /\ result' = <<setWorkingDirectoryResult(Cur, newPath)>>
  /\ returned' = "setWorkingDirectory"
  /\ UNCHANGED <<env, inflight, calls>>

\* ------------------------------------------------------------------ events
ChildExit(p, code) ==
  /\ IsSpawn /\ p \in 1..Len(procs) /\ procs[p].state = "running"
  /\ Commit(onChildExit([Cur EXCEPT !.procs[p].state = "exited"], code))
  /\ Event /\ UNCHANGED <<env, inflight>>

ChildOutput_Promote(text) ==
  /\ IsSpawn /\ \E p \in 1..Len(procs) : procs[p].state # "failed"
  /\ LET m1 == detectApiPrefixFromOutput(detectPortFromOutput(Cur, text), text)
     IN Commit(IF m1.detectedPort # NoPort /\ text.urls # <<>>
               THEN setStatus(m1, "connected", Undefined)
               ELSE m1)
  /\ Event /\ UNCHANGED <<env, inflight>>

\* stdout/stderr 'data': a chunk may still arrive after 'exit' (the streams
\* close later).
ChildOutput(text) ==
  /\ IsSpawn /\ \E p \in 1..Len(procs) : procs[p].state # "failed"
  /\ Commit(detectApiPrefixFromOutput(detectPortFromOutput(Cur, text), text))
  /\ Event /\ UNCHANGED <<env, inflight>>

\* The interval callback up to await checkHealth.  checkHealth aborts its
\* request after 3000 ms and the timer fires every HEALTH_CHECK_INTERVAL_MS =
\* 5000 ms, so a tick finds no earlier callback still waiting for its probe.
HealthTick(id) ==
  /\ IsSpawn /\ id \in activeTimers
  /\ IF isFalsyUrl(getApiUrl(Cur))
     THEN /\ Commit(IF status = "connected" THEN setStatus(Cur, "disconnected", Undefined) ELSE Cur)
          /\ UNCHANGED inflight
     ELSE /\ inflight = 0
          /\ inflight' = inflight + 1
          /\ notified' = <<>>
          /\ UNCHANGED mgrVars
  /\ Event /\ UNCHANGED env

healthResult_ErrorOnFailure(m, healthy) ==
  IF healthy /\ m.status # "connected" THEN setStatus(m, "connected", Undefined)
  ELSE IF ~healthy /\ m.status = "connected"
       THEN setStatus(m, "error", <<"OpenCode health check failed">>)
  ELSE m

healthResult(m, healthy) ==
  IF healthy /\ m.status # "connected" THEN setStatus(m, "connected", Undefined)
  ELSE IF ~healthy /\ m.status = "connected" THEN setStatus(m, "disconnected", Undefined)
  ELSE m

\* The interval callback after await checkHealth.
HealthResult(healthy) ==
  /\ IsSpawn /\ inflight > 0
  /\ inflight' = inflight - 1
  /\ Commit(healthResult(Cur, healthy))
  /\ Event /\ UNCHANGED env

\* ------------------------------------------------------------------ onStatusChange
Callbacks == {"callback"}

\* onStatusChange(callback): register, call at once with the current status.
OnStatusChange(cb) ==
  /\ Commit([Cur EXCEPT !.listeners = @ \cup {cb},
                        !.notified = <<[cb |-> cb, status |-> status, error |-> lastError]>>])
  /\ Event /\ UNCHANGED <<env, inflight>>

\* Disposing the handle onStatusChange returned: listeners.delete(callback).
Dispose(cb) ==
  /\ cb \in listeners
  /\ Commit([Cur EXCEPT !.listeners = @ \ {cb}])
  /\ Event /\ UNCHANGED <<env, inflight>>

PortChoices == {NoPort, DEFAULT_OPENCODE_PORT} \cup EphemeralPorts

NextSpawn ==
  \/ \E t \in Threads : Start(t, Undefined)
  \/ \E t \in Threads, h \in BOOLEAN : StartExternalProbe(t, h)
  \/ \E t \in Threads, h \in BOOLEAN : StartExistingProbe(t, h)
  \/ \E t \in Threads, port \in PortChoices, o \in SpawnOutcomes, e \in SpawnErrors :
       StartSpawn(t, port, o, e)
  \/ \E t \in Threads, i \in 1..Len(API_PREFIX_CANDIDATES) : StartReady(t, API_PREFIX_CANDIDATES[i])
  \/ \E t \in Threads : StartRetry(t)
  \/ \E t \in Threads, k \in KillOutcomes : StartTimeout(t, k)
  \/ \E t \in Threads, k \in KillOutcomes : Stop(t, k)
  \/ \E t \in Threads : StopAfterGrace(t)
  \/ \E t \in Threads, k \in KillOutcomes : Restart(t, k)
  \/ \E t \in Threads : RestartSleep(t)
  \/ \E p \in 1..Len(procs), code \in ExitCodes : ChildExit(p, code)
  \/ \E text \in LogTexts : ChildOutput(text)
  \/ \E id \in activeTimers : HealthTick(id)
  \/ \E h \in BOOLEAN : HealthResult(h)

\* ------------------------------------------------------------------ the SDK-based manager
\* URLs the SDK reports for the server it started: scheme and host, port, path.
\* createOpencodeServer resolves once it has read the URL the server printed, so
\* the URL it reports is never empty.
KnownPorts == {DEFAULT_OPENCODE_PORT} \cup EphemeralPorts
SdkServerUrls == {<<"http://127.0.0.1:", "51723">>, <<"http://127.0.0.1:", "51723", "/">>}
SdkErrors == {<<"spawn opencode", " ", "ENOENT">>, <<"Timeout waiting for server to start after 30000ms">>}

includes(s, token) == \E i \in 1..Len(s) : s[i] = token
parseInt(text) == CHOOSE n \in KnownPorts : ToString(n) = text

origin(url) == SubSeq(url, 1, 2)
pathname(url) == IF Len(url) > 2 THEN SubSeq(url, 3, Len(url)) ELSE <<"/">>

resolvePortFromUrl(url) == IF Len(url) >= 2 THEN parseInt(url[2]) ELSE NoPort

normalizeBaseUrl(value) == stripTrailingSlashes(value)

addCandidate(candidates, url) ==
  LET v == normalizeBaseUrl(url)
  IN IF \E i \in 1..Len(candidates) : candidates[i] = v THEN candidates ELSE Append(candidates, v)

getCandidateBaseUrls(serverUrl) ==
  LET normalized == normalizeBaseUrl(serverUrl)
  IN addCandidate(addCandidate(addCandidate(<<>>, normalized),
                               origin(normalized) \o <<"/", "api">>),
                  origin(normalized))

inferApiPrefixFromUrl(url) ==
  LET p == pathname(url)
  IN IF p = <<"/">> \/ p = <<>> THEN <<>>
     ELSE IF endsWith(p, <<"/">>) THEN SubSeq(p, 1, Len(p) - 1) ELSE p

SdkCliNotFoundMessage == <<"OpenCode CLI not found. Install it or ensure it's in PATH.">>
HealthCheckFailedMessage == <<"Server started but health check failed">>
UrlMissingMessage == <<"Server started but URL is missing">>

getApiUrlSdk(m) ==
  IF useConfiguredUrl /\ configuredApiUrl # <<>>
  THEN stripTrailingSlashes(configuredApiUrl)
  ELSE IF ~isFalsyUrl(m.managedApiUrlOverride)
       THEN stripTrailingSlashes(m.managedApiUrlOverride)
  ELSE IF m.server # NoServer /\ m.servers[m.server].url # <<>>
       THEN stripTrailingSlashes(m.servers[m.server].url)
  ELSE IF m.detectedPort # NoPort
       THEN <<"http://127.0.0.1:", ToString(m.detectedPort)>> \o m.apiPrefix
  ELSE Undefined

close(m) == [m EXCEPT !.servers[m.server].state = "closed"]

OpenServers == {i \in 1..Len(servers) : servers[i].state = "open"}

\* The catch block of start().
startFailedSdk(m, message) ==
  IF includes(message, "ENOENT") \/ includes(message, "spawn opencode")
  THEN showErrorMessage(setStatus([m EXCEPT !.cliMissing = TRUE], "error", SdkCliNotFoundMessage))
  ELSE setStatus(m, "error", FailedToStartMessage(message))

\* start() up to await createOpencodeServer (or to its end in external mode).
startEnterSdk(m, workdir) ==
  LET m1 == [m EXCEPT !.startCount = @ + 1,
                      !.workingDirectory = IF isNonBlankString(workdir) THEN trim(workdir) ELSE @]
  IN IF useConfiguredUrl /\ configuredApiUrl # <<>>
     THEN [m |-> setStatus(setStatus(m1, "connecting", Undefined), "connected", Undefined),
           pc |-> "return"]
     ELSE [m |-> [setStatus(m1, "connecting", Undefined) EXCEPT
                    !.cliMissing = FALSE, !.detectedPort = NoPort, !.apiPrefix = <<>>,
                    !.apiPrefixDetected = FALSE, !.lastExitCode = NullCode,
                    !.managedApiUrlOverride = Undefined],
           pc |-> "sdk_create"]

stopSdk(m) ==
  LET m1 == IF m.server # NoServer THEN [close(m) EXCEPT !.server = NoServer] ELSE m
  IN setStatus([m1 EXCEPT !.managedApiUrlOverride = Undefined, !.detectedPort = NoPort],
               "disconnected", Undefined)

IsSdk == impl = "sdk"

SdkStart(t, workdir) ==
  /\ IsSdk /\ CanEnter(t) /\ startCount < MaxStarts
  /\ LET r == startEnterSdk(Cur, workdir)
     IN /\ Commit(r.m)
        /\ IF r.pc = "return" THEN Return(t, "start")
           ELSE Suspend(t, [Idle EXCEPT !.pc = r.pc, !.op = "start", !.ret = "caller"])
  /\ UNCHANGED <<env, inflight>>

\* createOpencodeServer resolved: server = { url, close }.
SdkCreated(t, url) ==
  /\ IsSdk /\ calls[t].pc = "sdk_create"
  /\ LET m1 == [Cur EXCEPT !.servers = Append(@, [url |-> url, state |-> "open"]),
                           !.server = Len(servers) + 1]
     IN IF url # <<>>
        THEN Commit(m1) /\ Resume(t, "sdk_wait")
        ELSE Commit(startFailedSdk(m1, UrlMissingMessage)) /\ Return(t, calls[t].op)
  /\ UNCHANGED <<env, inflight>>

\* createOpencodeServer rejected.
SdkCreateFailed(t, message) ==
  /\ IsSdk /\ calls[t].pc = "sdk_create"
  /\ Commit(startFailedSdk(Cur, message))
  /\ Return(t, calls[t].op)
  /\ UNCHANGED <<env, inflight>>

\* waitForReady(server.url, 10000) returned { ok: true, baseUrl }.
SdkReady(t, baseUrl) ==
  /\ IsSdk /\ calls[t].pc = "sdk_wait"
  /\ \E i \in 1..Len(getCandidateBaseUrls(servers[server].url)) :
       baseUrl = getCandidateBaseUrls(servers[server].url)[i]
  /\ LET prefix == inferApiPrefixFromUrl(baseUrl)
     IN Commit(setStatus([Cur EXCEPT !.managedApiUrlOverride = baseUrl,
                                     !.detectedPort = resolvePortFromUrl(baseUrl),
                                     !.apiPrefix = prefix,
                                     !.apiPrefixDetected = Len(prefix) > 0],
                         "connected", Undefined))
  /\ Return(t, calls[t].op)
  /\ UNCHANGED <<env, inflight>>

\* waitForReady returned { ok: false }.
SdkNotReady(t) ==
  /\ IsSdk /\ calls[t].pc = "sdk_wait"
  /\ Commit(startFailedSdk([close(Cur) EXCEPT !.server = NoServer], HealthCheckFailedMessage))
  /\ Return(t, calls[t].op)
  /\ UNCHANGED <<env, inflight>>

SdkStop(t) ==
  /\ IsSdk /\ CanEnter(t)
  /\ Commit(stopSdk(Cur))
  /\ Return(t, "stop")
  /\ UNCHANGED <<env, inflight>>

SdkRestart(t) ==
  /\ IsSdk /\ CanEnter(t) /\ startCount < MaxStarts /\ restartCount < MaxRestarts
  /\ Commit(stopSdk([Cur EXCEPT !.restartCount = @ + 1]))
  /\ Suspend(t, [Idle EXCEPT !.pc = "sdk_restart_sleep", !.op = "restart", !.ret = "restart"])
  /\ UNCHANGED <<env, inflight>>

SdkRestartSleep(t) ==
  /\ IsSdk /\ calls[t].pc = "sdk_restart_sleep"
  /\ LET r == startEnterSdk(Cur, Undefined)
     IN /\ Commit(r.m)
        /\ IF r.pc = "return" THEN Return(t, calls[t].op)
           ELSE Suspend(t, [calls[t] EXCEPT !.pc = r.pc, !.ret = "caller"])
  /\ UNCHANGED <<env, inflight>>

SdkCandidates == UNION {{getCandidateBaseUrls(u)[i] : i \in 1..Len(getCandidateBaseUrls(u))} :
                        u \in SdkServerUrls \ {<<>>}}

NextSdk ==
  \/ \E t \in Threads : SdkStart(t, Undefined)
  \/ \E t \in Threads, url \in SdkServerUrls : SdkCreated(t, url)
  \/ \E t \in Threads, e \in SdkErrors : SdkCreateFailed(t, e)
  \/ \E t \in Threads, b \in SdkCandidates : SdkReady(t, b)
  \/ \E t \in Threads : SdkNotReady(t)
  \/ \E t \in Threads : SdkStop(t)
  \/ \E t \in Threads : SdkRestart(t)
  \/ \E t \in Threads : SdkRestartSleep(t)

\* ------------------------------------------------------------------ HTTP probes
\* What fetch gives for one request: threw (connection refused, or aborted by
\* the timeout), or a response with its ok flag (status 200-299) and its
\* content-type header (Undefined: no such header).  A header value is a
\* sequence of pieces, so that includes('json') is computed.
Response(threw, ok, contentType) == [threw |-> threw, ok |-> ok, contentType |-> contentType]
FetchThrew == Response(TRUE, FALSE, Undefined)
Json200 == Response(FALSE, TRUE, <<"application/", "json">>)
JsonUpper200 == Response(FALSE, TRUE, <<"Application/", "JSON", "; charset=utf-8">>)
Html200 == Response(FALSE, TRUE, <<"text/html">>)
HtmlJson200 == Response(FALSE, TRUE, <<"text/html", "; profile=", "json">>)
NoType200 == Response(FALSE, TRUE, Undefined)
Json500 == Response(FALSE, FALSE, <<"application/", "json">>)
Responses == {FetchThrew, Json200, JsonUpper200, Html200, HtmlJson200, NoType200, Json500}

\* (response.headers.get('content-type') || '').toLowerCase(), then the test.
isJson(response) ==
  LET contentType == toLowerCase(IF response.contentType = Undefined THEN <<>>
                                 ELSE response.contentType)
  IN includes(contentType, "json") /\ ~includes(contentType, "text/html")

\* checkHealth: one request, of /config.
checkHealth(response) == ~response.threw /\ response.ok /\ isJson(response)

READY_TARGETS == << <<"/config">>, <<"/config/providers">>, <<"/agent">>, <<"/session/status">> >>

checkReadyFrom_AllRequested(responses, i, requested) ==
  [value |-> \A j \in i..Len(READY_TARGETS) :
               ~responses[j].threw /\ responses[j].ok /\ isJson(responses[j]),
   requested |-> requested \o SubSeq(READY_TARGETS, i, Len(READY_TARGETS))]

\* checkReady from its i-th target on: responses[i] is what the i-th endpoint
\* answers when it is requested.  The value, and the paths requested.
RECURSIVE checkReadyFrom(_, _, _)
checkReadyFrom(responses, i, requested) ==
  IF i > Len(READY_TARGETS) THEN [value |-> TRUE, requested |-> requested]
  ELSE LET response == responses[i]
           sofar == Append(requested, READY_TARGETS[i])
       IN IF response.threw \/ ~response.ok \/ ~isJson(response)
          THEN [value |-> FALSE, requested |-> sofar]
          ELSE checkReadyFrom(responses, i + 1, sofar)

checkReady(responses) == checkReadyFrom(responses, 1, <<>>)

\* One pass of waitForReady over its candidates: the index of the first
\* candidate whose response is ok, or 0.
RECURSIVE firstOk(_, _)
firstOk(round, i) ==
  IF i > Len(round) THEN 0
  ELSE IF ~round[i].threw /\ round[i].ok THEN i
  ELSE firstOk(round, i + 1)

\* waitForReady(serverUrl, timeoutMs): rounds are the responses of the passes
\* that begin before the deadline, one response per candidate.
RECURSIVE waitForReadyFrom(_, _)
waitForReadyFrom(candidates, rounds) ==
  IF rounds = <<>> THEN [ok |-> FALSE, baseUrl |-> Undefined]
  ELSE IF firstOk(Head(rounds), 1) # 0
       THEN [ok |-> TRUE, baseUrl |-> candidates[firstOk(Head(rounds), 1)]]
       ELSE waitForReadyFrom(candidates, Tail(rounds))

waitForReady(serverUrl, rounds) == waitForReadyFrom(getCandidateBaseUrls(serverUrl), rounds)

probeOpenCodeAtPortFrom_LastPassing(ready, i) ==
  IF \E j \in i..Len(API_PREFIX_CANDIDATES) : checkReady(ready[j]).value
  THEN API_PREFIX_CANDIDATES[CHOOSE j \in i..Len(API_PREFIX_CANDIDATES) :
                               /\ checkReady(ready[j]).value
                               /\ \A k \in (j + 1)..Len(API_PREFIX_CANDIDATES) :
                                    ~checkReady(ready[k]).value]
  ELSE Undefined

\* probeOpenCodeAtPort from its i-th candidate on: ready[i] are the answers the
\* four endpoints give under origin + API_PREFIX_CANDIDATES[i].  The candidate
\* found, or Undefined for null.
RECURSIVE probeOpenCodeAtPortFrom(_, _)
probeOpenCodeAtPortFrom(ready, i) ==
  IF i > Len(API_PREFIX_CANDIDATES) THEN Undefined
  ELSE IF checkReady(ready[i]).value THEN API_PREFIX_CANDIDATES[i]
  ELSE probeOpenCodeAtPortFrom(ready, i + 1)

probeOpenCodeAtPort(port, ready) ==
  IF port <= 0 THEN Undefined ELSE probeOpenCodeAtPortFrom(ready, 1)

\* waitForOpenCodeReadyAtPort(port, timeoutMs): rounds are the answers of the
\* rounds that begin before the deadline.  The value, and the closure state.
RECURSIVE waitForOpenCodeReadyAtPort(_, _, _)
waitForOpenCodeReadyAtPort(m, port, rounds) ==
  IF rounds = <<>> THEN [value |-> FALSE, m |-> m]
  ELSE LET prefix == probeOpenCodeAtPort(port, Head(rounds))
       IN IF prefix # Undefined
          THEN [value |-> TRUE, m |-> setDetectedApiPrefix(m, prefix)]
          ELSE waitForOpenCodeReadyAtPort(m, port, Tail(rounds))

\* The inputs of the probe specification.
SeqsOf(S, n) == [1..n -> S]
EndpointAnswers ==
  { <<Json200, JsonUpper200, Json200, Json200>>, <<Html200, Json200, Json200, Json200>>,
    <<Json200, Json200, FetchThrew, Json200>>, <<Json200, Json200, Json200, Json500>> }
ReadyRounds ==
  UNION {SeqsOf(SeqsOf(EndpointAnswers, Len(API_PREFIX_CANDIDATES)), n) : n \in 1..(MaxRounds + 1)}
WaitResponses == {FetchThrew, Json200, Html200, Json500}
WaitRounds(serverUrl) ==
  UNION {SeqsOf(SeqsOf(WaitResponses, Len(getCandidateBaseUrls(serverUrl))), n) : n \in 1..MaxRounds}
ProbeInputs ==
  {[kind |-> "checkReady", responses |-> rs] : rs \in SeqsOf(Responses, Len(READY_TARGETS))}
  \cup {[kind |-> "checkHealth", response |-> r] : r \in Responses}
  \cup UNION {{[kind |-> "waitForReady", serverUrl |-> u, rounds |-> rounds] :
                 rounds \in WaitRounds(u)} : u \in SdkServerUrls}
  \cup {[kind |-> "waitForOpenCodeReadyAtPort", port |-> port, rounds |-> rounds,
         scraped |-> scraped] :
          port \in {NoPort, DEFAULT_OPENCODE_PORT}, rounds \in ReadyRounds, scraped \in BOOLEAN}

CheckReady ==
  /\ input.kind = "checkReady" /\ output = <<>>
  /\ output' = <<checkReady(input.responses)>>
  /\ UNCHANGED <<config, input, tcp, other, lifecycle>>

CheckHealth ==
  /\ input.kind = "checkHealth" /\ output = <<>>
  /\ output' = <<checkHealth(input.response)>>
  /\ UNCHANGED <<config, input, tcp, other, lifecycle>>

WaitForReady ==
  /\ input.kind = "waitForReady" /\ output = <<>>
  /\ output' = <<waitForReady(input.serverUrl, input.rounds)>>
  /\ UNCHANGED <<config, input, tcp, other, lifecycle>>

\* waitForOpenCodeReadyAtPort on the closure state of a manager that has just
\* spawned its process; input.scraped: the process has printed a URL under
\* '/api' already, and the output listener has taken the prefix from it.
WaitForOpenCodeReadyAtPort ==
  /\ input.kind = "waitForOpenCodeReadyAtPort" /\ output = <<>>
  /\ LET m == IF input.scraped THEN setDetectedApiPrefix(Cur, <<"/", "api">>) ELSE Cur
         r == waitForOpenCodeReadyAtPort(m, input.port, input.rounds)
     IN Commit(r.m) /\ output' = <<r.value>>
  /\ UNCHANGED <<config, input, tcp, other, inflight, calls, returned, result>>

\* The closure state of a manager that createOpenCodeManager has just returned.
InitManager ==
  /\ status = "disconnected"
  /\ lastError = Undefined
  /\ workingDirectory = InitialDirectory
  /\ startCount = 0
  /\ restartCount = 0
  /\ lastExitCode = NullCode
  /\ detectedPort = NoPort
  /\ apiPrefix = <<>>
  /\ apiPrefixDetected = FALSE
  /\ childProcess = NoProc
  /\ childKilled = FALSE
  /\ healthCheckInterval = NoTimer
  /\ procs = <<>>
  /\ activeTimers = {}
  /\ inflight = 0
  /\ calls = [t \in Threads |-> Idle]
  /\ returned = "none"
  /\ result = <<>>
  /\ server = NoServer
  /\ servers = <<>>
  /\ managedApiUrlOverride = Undefined
  /\ cliMissing = FALSE
  /\ listeners = {}
  /\ shown = 0
  /\ notified = <<>>

NoInput == [kind |-> "none"]
\* The closure state createOpenCodeManager sets up, as a value.
InitialManager ==
  [status |-> "disconnected", lastError |-> Undefined,
   workingDirectory |-> InitialDirectory,
   startCount |-> 0, restartCount |-> 0,
   lastExitCode |-> NullCode, detectedPort |-> NoPort,
   apiPrefix |-> <<>>, apiPrefixDetected |-> FALSE,
   childProcess |-> NoProc, childKilled |-> FALSE,
   healthCheckInterval |-> NoTimer,
   procs |-> <<>>, activeTimers |-> {},
   server |-> NoServer, servers |-> <<>>,
   managedApiUrlOverride |-> Undefined, cliMissing |-> FALSE,
   listeners |-> {}, shown |-> 0, notified |-> <<>>]
\* The second manager just constructed: its closure state, its call, its
\* health-check callbacks suspended at await checkHealth.
NoOther == [m |-> InitialManager, call |-> Idle, inflight |-> 0]
\* No listener but the processes the manager spawns, none of them tracked.
NoTcp == [foreign |-> {}, portOf |-> <<>>, bound |-> {}]

Init ==
  /\ impl \in {"spawn", "sdk"}
  /\ configuredApiUrl \in ConfiguredUrls
  /\ binEnv \in BinEnvs
  /\ cliAvailable = (resolveCliPath(binEnv) # Undefined)
  /\ overlap = FALSE
  /\ silent = FALSE
  /\ store = InitialStore
  /\ input = NoInput
  /\ output = <<>>
  /\ tcp = NoTcp
  /\ other = NoOther
  /\ InitManager

Next == NextSpawn \/ NextSdk

Spec == Init /\ [][Next]_vars

\* The probes as functions of the responses they receive, applied once each.
InitProbe ==
  /\ impl = "spawn"
  /\ configuredApiUrl = <<>>
  /\ binEnv = NothingInstalled
  /\ cliAvailable = FALSE
  /\ overlap = FALSE
  /\ silent = FALSE
  /\ store = InitialStore
  /\ input \in ProbeInputs
  /\ output = <<>>
  /\ tcp = NoTcp
  /\ other = NoOther
  /\ InitManager

NextProbe == CheckReady \/ CheckHealth \/ WaitForReady \/ WaitForOpenCodeReadyAtPort

SpecProbe == InitProbe /\ [][NextProbe]_vars

\* ------------------------------------------------------------------ resolveCliPath as a function of the machine
\* The machines resolveCliPath is applied to.  Each path it may look at is
\* absent, a directory, a file without the execute permission or an executable
\* file; OPENCODE_BINARY is unset or names the override path, in lower or in
\* upper case of its suffix; OPENCHAMBER_OPENCODE_PATH is set to ''.
Platforms == {"linux", "win32"}
FileStates == {"none", "dir", "noexec", "exec"}
FileOf(filePath, fileState) ==
  IF fileState = "none" THEN {}
  ELSE {BinFile(filePath, fileState # "dir", fileState = "exec")}

OverridePathUpper == <<"/custom/opencode", ".EXE">>
CliOverrides == {Undefined, OverridePath, OverridePathUpper}
CliPathDirs == << <<>>, <<"/home/u/bin">>, <<"/opt/tools/bin">> >>
binaryName(platform) == IF platform = "win32" THEN <<"opencode", ".exe">> ELSE <<"opencode">>
WherePath == <<"C:/cwd/opencode.cmd">>
ShellPath1 == "/nvm/bin/opencode"
ShellPath2 == "/asdf/shims/opencode"
\* What the shells answer: the first is missing; the first fails; both answer;
\* the first prints nothing and the second prints a word after the path.
CliShells ==
  { <<Shell(FALSE, 0, <<ShellPath1>>), Shell(TRUE, 0, <<ShellPath2>>)>>,
    <<Shell(TRUE, 1, <<ShellPath1>>), Shell(TRUE, 0, <<"Welcome", ShellPath2>>)>>,
    <<Shell(TRUE, 0, <<ShellPath1>>), Shell(TRUE, 0, <<ShellPath2>>)>>,
    <<Shell(TRUE, 0, <<>>), Shell(TRUE, 0, <<ShellPath1, "bye">>)>> }

CliMachines ==
  { BinEnv(platform, << <<>>, Undefined, Undefined, override >>,
           (IF override = Undefined THEN {}
            ELSE FileOf(override, atOverride) \cup FileOf(override \o <<".exe">>, atOverrideExe))
             \cup FileOf(WellKnownBinPaths[2], atWellKnown)
             \cup FileOf(join(CliPathDirs[2], binaryName(platform)), atPath1)
             \cup FileOf(join(CliPathDirs[3], binaryName(platform)), atPath2)
             \cup FileOf(WherePath, atWhere)
             \cup FileOf(<<ShellPath1>>, atShell1)
             \cup FileOf(<<ShellPath2>>, atShell2),
           CliPathDirs,
           IF atWhere = "none" THEN <<>> ELSE <<WherePath>>,
           shells) :
      platform \in Platforms, override \in CliOverrides,
      atOverride \in FileStates, atOverrideExe \in {"none", "exec"},
      atWellKnown \in {"none", "noexec", "exec"}, atPath1 \in {"none", "noexec", "exec"},
      atPath2 \in {"none", "exec"}, atWhere \in {"none", "exec"},
      atShell1 \in {"none", "noexec", "exec"}, atShell2 \in {"none", "exec"},
      shells \in CliShells }

\* const cliPath = resolveCliPath() (line 719).
ResolveCliPath ==
  /\ input.kind = "resolveCliPath" /\ output = <<>>
  /\ output' = <<resolveCliPath(binEnv)>>
  /\ UNCHANGED <<config, input, tcp, other, lifecycle>>

InitCli ==
  /\ impl = "spawn"
  /\ configuredApiUrl = <<>>
  /\ binEnv \in CliMachines
  /\ cliAvailable = (resolveCliPath(binEnv) # Undefined)
  /\ overlap = FALSE
  /\ silent = FALSE
  /\ store = InitialStore
  /\ input = [kind |-> "resolveCliPath"]
  /\ output = <<>>
  /\ tcp = NoTcp
  /\ other = NoOther
  /\ InitManager

NextCli == ResolveCliPath

SpecCli == InitCli /\ [][NextCli]_vars

\* The lifecycle without the text the process prints: the listeners of the
\* output call neither setStatus nor anything that reads the working directory.
NextQuiet ==
  \/ \E t \in Threads : Start(t, Undefined)
  \/ \E t \in Threads, h \in BOOLEAN : StartExternalProbe(t, h)
  \/ \E t \in Threads, h \in BOOLEAN : StartExistingProbe(t, h)
  \/ \E t \in Threads, port \in PortChoices, o \in SpawnOutcomes, e \in SpawnErrors :
       StartSpawn(t, port, o, e)
  \/ \E t \in Threads, i \in 1..Len(API_PREFIX_CANDIDATES) : StartReady(t, API_PREFIX_CANDIDATES[i])
  \/ \E t \in Threads : StartRetry(t)
  \/ \E t \in Threads, k \in KillOutcomes : StartTimeout(t, k)
  \/ \E t \in Threads, k \in KillOutcomes : Stop(t, k)
  \/ \E t \in Threads : StopAfterGrace(t)
  \/ \E t \in Threads, k \in KillOutcomes : Restart(t, k)
  \/ \E t \in Threads : RestartSleep(t)
  \/ \E p \in 1..Len(procs), code \in ExitCodes : ChildExit(p, code)
  \/ \E id \in activeTimers : HealthTick(id)
  \/ \E h \in BOOLEAN : HealthResult(h)
  \/ NextSdk

\* The lifecycle with childProcess.kill throwing: stop() catches it, drops the
\* handle and goes on.
NextFail ==
  \/ NextQuiet
  \/ \E t \in Threads : Stop(t, "throws")
  \/ \E t \in Threads : Restart(t, "throws")
  \/ \E t \in Threads : StartTimeout(t, "throws")

SpecFail == Init /\ [][NextFail]_vars

\* The lifecycle observed through onStatusChange.
NextListen ==
  \/ NextQuiet
  \/ \E cb \in Callbacks : OnStatusChange(cb)
  \/ \E cb \in Callbacks : Dispose(cb)

SpecListen == Init /\ [][NextListen]_vars

\* The lifecycle with the working directory as an input: start(workdir) and
\* setWorkingDirectory(path) of both managers.
NextDir ==
  \/ NextQuiet
  \/ \E t \in Threads, w \in WorkdirArgs \ {Undefined} : Start(t, w)
  \/ \E t \in Threads, w \in WorkdirArgs \ {Undefined} : SdkStart(t, w)
  \/ \E newPath \in PathArgs : SetWorkingDirectory(newPath)

SpecDir == Init /\ [][NextDir]_vars

\* The process-spawning manager in managed mode with a caller that does not
\* await: start(), stop() and restart() may be entered while another call is
\* suspended.
InitOverlap ==
  /\ impl = "spawn"
  /\ configuredApiUrl = <<>>
  /\ binEnv = OverrideNotExecutableInstalled
  /\ cliAvailable = (resolveCliPath(binEnv) # Undefined)
  /\ overlap = TRUE
  /\ silent = FALSE
  /\ store = InitialStore
  /\ input = NoInput
  /\ output = <<>>
  /\ tcp = NoTcp
  /\ other = NoOther
  /\ InitManager

NextOverlap ==
  \/ \E t \in Threads : Start(t, Undefined)
  \/ \E t \in Threads, h \in BOOLEAN : StartExistingProbe(t, h)
  \/ \E t \in Threads, port \in PortChoices, o \in SpawnOutcomes, e \in SpawnErrors :
       StartSpawn(t, port, o, e)
  \/ \E t \in Threads, i \in 1..Len(API_PREFIX_CANDIDATES) : StartReady(t, API_PREFIX_CANDIDATES[i])
  \/ \E t \in Threads : StartRetry(t)
  \/ \E t \in Threads, k \in KillOutcomes : StartTimeout(t, k)
  \/ \E t \in Threads, k \in KillOutcomes : Stop(t, k)
  \/ \E t \in Threads : StopAfterGrace(t)
  \/ \E t \in Threads, k \in KillOutcomes : Restart(t, k)
  \/ \E t \in Threads : RestartSleep(t)
  \/ \E p \in 1..Len(procs), code \in ExitCodes : ChildExit(p, code)
  \/ \E id \in activeTimers : HealthTick(id)
  \/ \E h \in BOOLEAN : HealthResult(h)

SpecOverlap == InitOverlap /\ [][NextOverlap]_vars

\* ------------------------------------------------------------------ the TCP ports
\* tcp.foreign are the ports held by listeners the manager did not spawn;
\* tcp.portOf[p] is the port process p was told to serve (--port); tcp.bound are
\* the processes that have bound their port.  A process holds its port from its
\* bind to its exit.
Holds(p, port) == p \in tcp.bound /\ tcp.portOf[p] = port /\ procs[p].state = "running"
Answering(port) == port \in tcp.foreign \/ \E p \in 1..Len(procs) : Holds(p, port)

\* isTcpPortAvailable(port): listen on the port succeeds.
isTcpPortAvailable(port) == port > 0 /\ ~Answering(port)

\* The async function that start() awaits for portToUse; getEphemeralPort
\* rejects (NoPort) when the system has no free port to give.
portToUse ==
  IF isTcpPortAvailable(DEFAULT_OPENCODE_PORT) THEN DEFAULT_OPENCODE_PORT
  ELSE IF \E port \in EphemeralPorts : isTcpPortAvailable(port)
       THEN CHOOSE port \in EphemeralPorts : isTcpPortAvailable(port)
       ELSE NoPort

\* The port choice and the spawn, on the machine's ports.
PortStartSpawn(t, outcome, message) ==
  /\ startSpawn(t, portToUse, outcome, message)
  /\ tcp' = IF Len(procs') > Len(procs)
            THEN [tcp EXCEPT !.portOf = Append(@, portToUse)]
            ELSE tcp
  /\ UNCHANGED <<config, input, output, other>>

\* The spawned service binds the port it was given, when the port is free.
ChildBind(p) ==
  /\ p \in 1..Len(procs) /\ procs[p].state = "running" /\ p \notin tcp.bound
  /\ isTcpPortAvailable(tcp.portOf[p])
  /\ tcp' = [tcp EXCEPT !.bound = @ \cup {p}]
  /\ UNCHANGED <<config, input, output, other, lifecycle>>

\* A program that is not the manager's starts to listen on a port.
ForeignBind(port) ==
  /\ isTcpPortAvailable(port)
  /\ tcp' = [tcp EXCEPT !.foreign = @ \cup {port}]
  /\ UNCHANGED <<config, input, output, other, lifecycle>>

ForeignClose(port) ==
  /\ port \in tcp.foreign
  /\ tcp' = [tcp EXCEPT !.foreign = @ \ {port}]
  /\ UNCHANGED <<config, input, output, other, lifecycle>>

\* A probe passes only when some listener answers on the port it asks.
PortStartReady(t, prefix) == Answering(calls[t].portToUse) /\ StartReady(t, prefix)
PortExistingProbe(t, healthy) ==
  (healthy => Answering(detectedPort)) /\ StartExistingProbe(t, healthy)
PortHealthResult(healthy) ==
  (healthy => \E port \in KnownPorts : Answering(port)) /\ HealthResult(healthy)

\* Managed mode of the process-spawning manager, the binary installed, on a
\* machine where other programs listen too.
InitPort ==
  /\ impl = "spawn"
  /\ configuredApiUrl = <<>>
  /\ binEnv = OverrideNotExecutableInstalled
  /\ cliAvailable = (resolveCliPath(binEnv) # Undefined)
  /\ overlap = FALSE
  /\ silent = FALSE
  /\ store = InitialStore
  /\ input = NoInput
  /\ output = <<>>
  /\ tcp = NoTcp
  /\ other = NoOther
  /\ InitManager

NextPort ==
  \/ \E t \in Threads : Start(t, Undefined)
  \/ \E t \in Threads, h \in BOOLEAN : PortExistingProbe(t, h)
  \/ \E t \in Threads, o \in SpawnOutcomes, e \in SpawnErrors : PortStartSpawn(t, o, e)
  \/ \E t \in Threads, i \in 1..Len(API_PREFIX_CANDIDATES) :
       PortStartReady(t, API_PREFIX_CANDIDATES[i])
  \/ \E t \in Threads : StartRetry(t)
  \/ \E t \in Threads, k \in KillOutcomes : StartTimeout(t, k)
  \/ \E t \in Threads, k \in KillOutcomes : Stop(t, k)
  \/ \E t \in Threads : StopAfterGrace(t)
  \/ \E t \in Threads, k \in KillOutcomes : Restart(t, k)
  \/ \E t \in Threads : RestartSleep(t)
  \/ \E p \in 1..Len(procs), code \in ExitCodes : ChildExit(p, code)
  \/ \E id \in activeTimers : HealthTick(id)
  \/ \E h \in BOOLEAN : PortHealthResult(h)
  \/ \E p \in 1..Len(procs) : ChildBind(p)
  \/ \E port \in KnownPorts : ForeignBind(port)
  \/ \E port \in KnownPorts : ForeignClose(port)

SpecPort == InitPort /\ [][NextPort]_vars

\* ------------------------------------------------------------------ a second manager
\* A second createOpenCodeManager() in the same program has its own closure
\* (lines 682-699); the module level holds constants only, and the one object
\* with state there, URL_REGEX (lastIndex), is reset by each function that
\* uses it before its first exec (lines 778, 810).  The handlers of the second
\* manager are the same functions, applied to its closure state.
OtherSet(m, call, inflightOther) ==
  other' = [m |-> [m EXCEPT !.childKilled = (m.childProcess # NoProc /\ m.childKilled),
                            !.notified = <<>>],
            call |-> call, inflight |-> inflightOther]

OtherGoto(r) ==
  OtherSet(r.m, IF r.pc = "return" THEN Idle ELSE [other.call EXCEPT !.pc = r.pc],
           other.inflight)

OtherStart ==
  /\ other.call.pc = "idle" /\ other.m.startCount < MaxStartsEach
  /\ LET r == startEnter(other.m, Undefined)
     IN OtherSet(r.m, IF r.pc = "return" THEN Idle
                      ELSE [Idle EXCEPT !.pc = r.pc, !.op = "start", !.ret = "caller"],
                 other.inflight)
  /\ UNCHANGED <<config, input, output, tcp, lifecycle>>

OtherStartSpawn(port, outcome, message) ==
  /\ other.call.pc = "start_port"
  /\ IF port = NoPort \/ outcome = "throws"
     THEN OtherSet(setStatus(other.m, "error", FailedToStartMessage(message)), Idle,
                   other.inflight)
     ELSE LET m1 == setDetectedPort(spawn(other.m, outcome), port)
          IN OtherSet(IF outcome = "error" THEN onChildError(m1, message) ELSE m1,
                      [other.call EXCEPT !.pc = "start_wait", !.portToUse = port, !.rounds = 1],
                      other.inflight)
  /\ UNCHANGED <<config, input, output, tcp, lifecycle>>

OtherStartReady(prefix) ==
  /\ other.call.pc = "start_wait"
  /\ OtherSet(startHealthCheck(setStatus(setDetectedApiPrefix(other.m, prefix),
                                         "connected", Undefined)),
              Idle, other.inflight)
  /\ UNCHANGED <<config, input, output, tcp, lifecycle>>

OtherStop_ModuleLevelPort(killOutcome) ==
  /\ other.call.pc = "idle"
  /\ LET r == stopEnter(other.m, killOutcome)
     IN OtherSet(r.m, IF r.pc = "return" THEN Idle
                      ELSE [Idle EXCEPT !.pc = r.pc, !.op = "stop", !.ret = "caller"],
                 other.inflight)
  /\ Commit([Cur EXCEPT !.detectedPort = NoPort]) /\ Event
  /\ UNCHANGED <<config, input, output, tcp, inflight>>

\* stop() of the second manager, and the stop() its start() awaits after the
\* readiness timeout.
OtherStop(killOutcome) ==
  /\ other.call.pc = "idle"
  /\ LET r == stopEnter(other.m, killOutcome)
     IN OtherSet(r.m, IF r.pc = "return" THEN Idle
                      ELSE [Idle EXCEPT !.pc = r.pc, !.op = "stop", !.ret = "caller"],
                 other.inflight)
  /\ UNCHANGED <<config, input, output, tcp, lifecycle>>

OtherStartTimeout(killOutcome) ==
  /\ other.call.pc = "start_wait"
  /\ OtherGoto(stopEnter(setStatus(other.m, "error", NotReadyMessage), killOutcome))
  /\ UNCHANGED <<config, input, output, tcp, lifecycle>>

OtherStopAfterGrace ==
  /\ other.call.pc = "stop_grace"
  /\ OtherSet(stopAfterGrace(other.m), Idle, other.inflight)
  /\ UNCHANGED <<config, input, output, tcp, lifecycle>>

OtherChildExit(p, code) ==
  /\ p \in 1..Len(other.m.procs) /\ other.m.procs[p].state = "running"
  /\ OtherSet(onChildExit([other.m EXCEPT !.procs[p].state = "exited"], code),
              other.call, other.inflight)
  /\ UNCHANGED <<config, input, output, tcp, lifecycle>>

OtherHealthTick(id) ==
  /\ id \in other.m.activeTimers
  /\ IF isFalsyUrl(getApiUrl(other.m))
     THEN OtherSet(IF other.m.status = "connected"
                   THEN setStatus(other.m, "disconnected", Undefined) ELSE other.m,
                   other.call, other.inflight)
     ELSE other.inflight = 0 /\ OtherSet(other.m, other.call, 1)
  /\ UNCHANGED <<config, input, output, tcp, lifecycle>>

OtherHealthResult(healthy) ==
  /\ other.inflight > 0
  /\ OtherSet(healthResult(other.m, healthy), other.call, other.inflight - 1)
  /\ UNCHANGED <<config, input, output, tcp, lifecycle>>

\* Two managers in managed mode with the binary installed.
InitTwo == InitPort

\* Each manager starts MaxStartsEach times at most; the spawned services are
\* given the default port and exit with code 1.
NextTwo ==
  \/ \E t \in {1} : startCount < MaxStartsEach /\ Start(t, Undefined)
  \/ \E t \in {1}, port \in {NoPort, DEFAULT_OPENCODE_PORT}, o \in SpawnOutcomes, e \in SpawnErrors :
       StartSpawn(t, port, o, e)
  \/ \E t \in {1} : StartReady(t, <<"/", "api">>)
  \/ \E t \in {1} : StartRetry(t)
  \/ \E t \in {1}, k \in KillOutcomes : StartTimeout(t, k)
  \/ \E t \in {1}, k \in KillOutcomes : Stop(t, k)
  \/ \E t \in {1} : StopAfterGrace(t)
  \/ \E t \in {1}, k \in KillOutcomes : startCount < MaxStartsEach /\ Restart(t, k)
  \/ \E t \in {1} : RestartSleep(t)
  \/ \E p \in 1..Len(procs) : ChildExit(p, 1)
  \/ \E id \in activeTimers : HealthTick(id)
  \/ \E h \in BOOLEAN : HealthResult(h)
  \/ OtherStart
  \/ \E port \in {NoPort, DEFAULT_OPENCODE_PORT}, o \in SpawnOutcomes, e \in SpawnErrors :
       OtherStartSpawn(port, o, e)
  \/ OtherStartReady(<<"/", "api">>)
  \/ \E k \in KillOutcomes : OtherStartTimeout(k)
  \/ \E k \in KillOutcomes : OtherStop(k)
  \/ OtherStopAfterGrace
  \/ \E p \in 1..Len(other.m.procs) : OtherChildExit(p, 1)
  \/ \E id \in other.m.activeTimers : OtherHealthTick(id)
  \/ \E h \in BOOLEAN : OtherHealthResult(h)

SpecTwo == InitTwo /\ [][NextTwo]_vars

\* ------------------------------------------------------------------ the health timer, under fairness
\* The process-spawning manager up to the moment the service goes silent, which
\* comes when no call of the caller is under way: from then on no probe is
\* answered and the caller enters no call.  The timer and the probes already
\* sent go on.
GoSilent ==
  /\ ~silent /\ \A t \in Threads : calls[t].pc = "idle"
  /\ silent' = TRUE
  /\ notified' = <<>>
  /\ Event
  /\ UNCHANGED <<impl, configuredApiUrl, binEnv, cliAvailable, overlap, store, input, output,
                 tcp, other, mgrVars, inflight>>

LiveCallerEnters ==
  /\ ~silent
  /\ \/ \E t \in Threads : Start(t, Undefined)
     \/ \E t \in Threads, k \in KillOutcomes : Stop(t, k)
     \/ \E t \in Threads, k \in KillOutcomes : Restart(t, k)

LiveProbeAnswered ==
  /\ ~silent
  /\ \/ \E t \in Threads : StartExternalProbe(t, TRUE)
     \/ \E t \in Threads : StartExistingProbe(t, TRUE)
     \/ \E t \in Threads, i \in 1..Len(API_PREFIX_CANDIDATES) : StartReady(t, API_PREFIX_CANDIDATES[i])

LiveProbeFailed ==
  \/ \E t \in Threads : StartExternalProbe(t, FALSE)
  \/ \E t \in Threads : StartExistingProbe(t, FALSE)
  \/ \E t \in Threads : StartRetry(t)
  \/ \E t \in Threads, k \in KillOutcomes : StartTimeout(t, k)

LiveCallGoesOn ==
  \/ \E t \in Threads, port \in PortChoices, o \in SpawnOutcomes, e \in SpawnErrors :
       StartSpawn(t, port, o, e)
  \/ \E t \in Threads : StopAfterGrace(t)
  \/ \E t \in Threads : RestartSleep(t)

LiveChildExit == \E p \in 1..Len(procs), code \in ExitCodes : ChildExit(p, code)

\* setInterval fires the callback every HEALTH_CHECK_INTERVAL_MS while the timer is active.
LiveHealthTick == \E id \in activeTimers : HealthTick(id)

\* checkHealth resolves: with the answer of the service, or false at the latest
\* when its request is aborted.
LiveHealthResult == \E h \in BOOLEAN : (h => ~silent) /\ HealthResult(h)

\* External mode and managed mode, without and with the binary installed.
InitLive ==
  /\ impl = "spawn"
  /\ configuredApiUrl \in {<<>>, <<"http://remote:8080", "/">>}
  /\ binEnv \in {NothingInstalled, OverrideNotExecutableInstalled}
  /\ cliAvailable = (resolveCliPath(binEnv) # Undefined)
  /\ overlap = FALSE
  /\ silent = FALSE
  /\ store = InitialStore
  /\ input = NoInput
  /\ output = <<>>
  /\ tcp = NoTcp
  /\ other = NoOther
  /\ InitManager

NextLive ==
  \/ GoSilent
  \/ LiveCallerEnters
  \/ LiveProbeAnswered
  \/ LiveProbeFailed
  \/ LiveCallGoesOn
  \/ LiveChildExit
  \/ LiveHealthTick
  \/ LiveHealthResult

\* Every timer of the program fires and every request ends (fetch is aborted
\* after its timeout), so each step that is enabled for good is taken.
SpecLive ==
  /\ InitLive
  /\ [][NextLive]_vars
  /\ WF_vars(LiveHealthTick)
  /\ WF_vars(LiveHealthResult)
  /\ WF_vars(LiveProbeFailed)
  /\ WF_vars(LiveCallGoesOn)


\* ------------------------------------------------------------------ the calls of the remote-connection store
BesideStore == <<impl, configuredApiUrl, binEnv, cliAvailable, overlap, silent, input, output,
                 tcp, other, lifecycle>>

\* connect(url, token) up to await fetch, or to its end for an http:// URL.
Connect(url, token) ==
  /\ Len(store.connecting) < MaxConnecting
  /\ LET st == [store EXCEPT !.isConnecting = TRUE, !.connectionError = Undefined]
         normalizedUrl == normalizeUrl(url)
         urlToken == searchParamsGetToken(normalizedUrl)
         found == urlToken # Undefined /\ urlToken # <<"">>
         c == [url |-> IF found THEN stripTrailingSlashes(deleteTokenToString(normalizedUrl))
                       ELSE normalizedUrl,
               token |-> IF found THEN urlToken ELSE token,
               pc |-> "fetch"]
     IN store' = IF startsWith(normalizedUrl, <<"http://">>)
                 THEN connectFailed(st, c, "http", OnlyHttpsMessage)
                 ELSE [st EXCEPT !.connecting = Append(@, c), !.last = NoCall]
  /\ UNCHANGED BesideStore

\* connect after await fetch: the request was aborted by the 10 s timer, failed
\* otherwise, or was answered with a status.
ConnectFetched(i, outcome, httpStatus) ==
  /\ i \in 1..Len(store.connecting) /\ store.connecting[i].pc = "fetch"
  /\ LET c == store.connecting[i]
         st == [store EXCEPT !.connecting = Remove(@, i)]
     IN store' =
          CASE outcome = "aborted" -> connectFailed(st, c, "timeout", TimedOutMessage)
            [] outcome = "threw" -> connectFailed(st, c, "network", <<"Failed to fetch">>)
            [] outcome = "answered" /\ (httpStatus < 200 \/ httpStatus > 299) ->
                 connectFailed(st, c, "status", ServerReturnedMessage(httpStatus))
            [] OTHER -> [store EXCEPT !.connecting[i].pc = "json", !.last = NoCall]
  /\ UNCHANGED BesideStore

\* connect after await response.json(): the body is JSON with isOpenCodeReady
\* false or absent, or reading it was aborted by the timer.
ConnectJson(i, healthData) ==
  /\ i \in 1..Len(store.connecting) /\ store.connecting[i].pc = "json"
  /\ LET c == store.connecting[i]
         st == [store EXCEPT !.connecting = Remove(@, i)]
     IN store' =
          CASE healthData = "aborted" -> connectFailed(st, c, "timeout", TimedOutMessage)
            [] healthData = "notReady" -> connectFailed(st, c, "notReady", NotReadyStoreMessage)
            [] OTHER -> connectSucceeded(st, c)
  /\ UNCHANGED BesideStore

Disconnect ==
  /\ store' = [store EXCEPT !.currentConnection = NoConnection, !.connectionError = Undefined,
                            !.last = [op |-> "disconnect"]]
  /\ UNCHANGED BesideStore

ClearHistory ==
  /\ store' = [store EXCEPT !.recentConnections = <<>>, !.last = [op |-> "clearHistory"]]
  /\ UNCHANGED BesideStore

\* The inputs: one server typed in three ways, one of them with http://, a
\* second server with its token in the URL, and the oldest entry of the list.
Host(n) == <<"https://", "h" \o ToString(n) \o ".example">>
StoreUrls ==
  { <<"https://", "a.example">>, <<" ", "a.example", "/", "/", " ">>,
    <<"http://", "a.example">>,
    <<"b.example", "?token=", "t1">>, Host(MAX_RECENT) }
\* The token argument is left out, or given along with the token in the URL.
StoreCalls ==
  {<<url, Undefined>> : url \in StoreUrls} \cup {<<<<"b.example", "?token=", "t1">>, <<"t2">>>>}
HttpStatuses == {200, 500}

\* The list the store loads from Preferences when an earlier session has
\* connected to MAX_RECENT servers, the last of them first.
PersistedRecent == [i \in 1..MAX_RECENT |-> RemoteConnection(Host(i), Undefined, hostname(Host(i)))]

InitStore ==
  /\ impl = "spawn"
  /\ configuredApiUrl = <<>>
  /\ binEnv = NothingInstalled
  /\ cliAvailable = FALSE
  /\ overlap = FALSE
  /\ silent = FALSE
  /\ store \in {InitialStore,
                [InitialStore EXCEPT !.recentConnections = PersistedRecent,
                                     !.lastConnected = Host(1)]}
  /\ input = NoInput
  /\ output = <<>>
  /\ tcp = NoTcp
  /\ other = NoOther
  /\ InitManager

NextStore ==
  \/ \E c \in StoreCalls : Connect(c[1], c[2])
  \/ \E i \in 1..Len(store.connecting), o \in {"aborted", "threw", "answered"}, h \in HttpStatuses :
       ConnectFetched(i, o, h)
  \/ \E i \in 1..Len(store.connecting), d \in {"aborted", "notReady", "absent"} :
       ConnectJson(i, d)
  \/ Disconnect
  \/ ClearHistory

SpecStore == InitStore /\ [][NextStore]_vars

\* ================================================================== claims
NonEmptyMessage(e) == e # Undefined /\ Len(e) > 0
ManagedPcs == {"start_existing", "start_port", "start_wait", "stop_grace", "sdk_create", "sdk_wait"}

\* C1: in the process-spawning manager, with calls that do not overlap, at most
\* one process spawned by the supervisor is alive at any time.
C1_AtMostOneLiveProcess == IsSpawn => Cardinality(LiveProcs) <= 1

\* C2: in the SDK-based manager, with calls that do not overlap, at most one
\* server created by the supervisor is open at any time.
C2_AtMostOneOpenServer == IsSdk => Cardinality(OpenServers) <= 1

C4_StopResets ==
  returned = "stop" =>
    /\ status = "disconnected" /\ lastError = Undefined
    /\ childProcess = NoProc /\ server = NoServer
    /\ detectedPort = NoPort
    /\ healthCheckInterval = NoTimer /\ activeTimers = {}

C5_ErrorHasMessage == status = "error" => NonEmptyMessage(lastError)

C5_Witness == status = "error" /\ childProcess = NoProc /\ Len(procs) > 0 /\ procs[Len(procs)].state = "failed"

\* C6: in the process-spawning manager, status connected implies that getApiUrl()
\* returns a base URL.
C6_ConnectedHasUrl == (IsSpawn /\ status = "connected") => ~isFalsyUrl(getApiUrl(Cur))

\* C7: in the process-spawning manager, detectedPort is non-null only while the
\* handle of a live spawned process is held.
C7_PortOnlyWithLiveChild ==
  (IsSpawn /\ detectedPort # NoPort) =>
    (childProcess # NoProc /\ procs[childProcess].state = "running")

\* C8: in external mode nothing is spawned, created or killed and no port is
\* resolved: no handle, no detectedPort, no process, no server, and no call is at
\* a step of the managed path.
C8_ExternalNeverSpawns ==
  useConfiguredUrl =>
    /\ childProcess = NoProc /\ detectedPort = NoPort /\ procs = <<>>
    /\ server = NoServer /\ servers = <<>>
    /\ \A t \in Threads : calls[t].pc \notin ManagedPcs

\* restart() has returned in external mode.
C8_Witness == useConfiguredUrl /\ returned = "restart" /\ startCount = MaxStarts

\* In external mode getApiUrl() is the configured URL (its trailing slashes
\* removed), never null.
C9_ExternalUrlKept ==
  (IsSpawn /\ useConfiguredUrl) =>
    /\ getApiUrl(Cur) = stripTrailingSlashes(configuredApiUrl)
    /\ getApiUrl(Cur) # Undefined

\* C9: in external mode of the process-spawning manager, start() sets
\* connecting and suspends at the readiness probe, its continuation sets
\* connected when the probe succeeded and error with a non-empty lastError when
\* it failed; getApiUrl() returns the configured URL in every state, so in both
\* outcomes and after stop().
C9_ExternalStart ==
  /\ []C9_ExternalUrlKept
  /\ [][\A t \in Threads :
          /\ (useConfiguredUrl /\ (Start(t, Undefined) \/ RestartSleep(t)))
               => (status' = "connecting" /\ calls'[t].pc = "start_external")
          /\ StartExternalProbe(t, TRUE) => status' = "connected"
          /\ StartExternalProbe(t, FALSE) =>
               (status' = "error" /\ NonEmptyMessage(lastError'))]_vars

\* start() has returned in error in external mode, after a stop().
C9_Witness ==
  /\ IsSpawn /\ useConfiguredUrl /\ returned = "start" /\ status = "error"
  /\ startCount = 2

\* C10: in external mode of the SDK-based manager, status becomes connected only
\* in the step that continues a successful readiness probe against the URL.
C10_SdkExternalProbes ==
  [][(IsSdk /\ useConfiguredUrl /\ status # "connected" /\ status' = "connected")
       => \E t \in Threads, b \in SdkCandidates : SdkReady(t, b)]_vars

\* C11: in managed mode of the process-spawning manager, getApiUrl() returns null
\* in every state where status is not connected.
C11_UrlNullUnlessConnected ==
  (IsSpawn /\ ~useConfiguredUrl /\ status # "connected") => getApiUrl(Cur) = Undefined

\* What a health-monitor callback leaves alone: it spawns, kills and restarts
\* nothing, starts and clears no timer, and moves no call.
C12_TickFrame ==
  /\ UNCHANGED <<procs, childProcess, childKilled, detectedPort, startCount, restartCount,
                 lastExitCode, healthCheckInterval, activeTimers, server, servers, calls>>
  /\ status' # status => status' \in {"connected", "disconnected"}

\* C12: a health-monitor tick changes status in exactly three cases: no base URL
\* while connected -> disconnected; probe success while not connected ->
\* connected; probe failure while connected -> disconnected.  Otherwise status
\* and lastError are unchanged; a tick never sets error or connecting and never
\* spawns, kills or restarts a process.
C12_HealthTickCases ==
  [][/\ \A id \in activeTimers : HealthTick(id) =>
          /\ C12_TickFrame
          /\ IF isFalsyUrl(getApiUrl(Cur)) /\ status = "connected"
             THEN status' = "disconnected"
             ELSE status' = status /\ lastError' = lastError
     /\ \A healthy \in BOOLEAN : HealthResult(healthy) =>
          /\ C12_TickFrame
          /\ IF healthy /\ status # "connected" THEN status' = "connected"
             ELSE IF ~healthy /\ status = "connected" THEN status' = "disconnected"
             ELSE status' = status /\ lastError' = lastError]_vars

\* A failed health probe has demoted the manager: the child is running, its
\* handle is held and the timer is active, yet status is disconnected.
C12_Witness ==
  /\ IsSpawn /\ status = "disconnected" /\ activeTimers # {}
  /\ childProcess # NoProc /\ procs[childProcess].state = "running" /\ ~childKilled

\* The call of thread t is the stop() that start() awaits after the readiness
\* timeout (a stop() called by the caller has op "stop", the one restart()
\* awaits has ret "restart").
C13_InTimeoutStop(t) ==
  calls[t].pc = "stop_grace" /\ calls[t].ret = "caller" /\ calls[t].op # "stop"

\* C13: in managed mode of the process-spawning manager, when the spawned
\* process does not pass readiness before the timeout, start() returns with
\* status error and a non-empty lastError, the process handle and detectedPort
\* cleared.
C13_TimeoutEndsInError ==
  [][\A t \in Threads :
       ((C13_InTimeoutStop(t) \/ calls[t].pc = "start_wait") /\ calls'[t].pc = "idle"
          /\ (C13_InTimeoutStop(t) \/ \E k \in KillOutcomes : StartTimeout(t, k)))
       => (/\ status' = "error" /\ NonEmptyMessage(lastError')
           /\ childProcess' = NoProc /\ detectedPort' = NoPort)]_vars

\* Managed mode of the process-spawning manager with no binary resolved.
C14_NoBinary == IsSpawn /\ ~useConfiguredUrl /\ ~cliAvailable

\* With no binary nothing is ever spawned, no port is chosen and no call
\* reaches the port allocation, the readiness wait or a kill.
C14_NothingSpawned ==
  C14_NoBinary =>
    /\ procs = <<>> /\ childProcess = NoProc /\ detectedPort = NoPort
    /\ \A t \in Threads : calls[t].pc \notin {"start_port", "start_wait", "stop_grace"}

\* C14: in managed mode, when no binary was resolved and no running service
\* answers at a last known URL, start() ends at once with status error and the
\* message that tells the user to install the CLI or set OPENCODE_BINARY; no
\* process is spawned and no port is allocated.
C14_NoBinaryEndsInError ==
  /\ []C14_NothingSpawned
  /\ [][\A t \in Threads :
          (C14_NoBinary
             /\ \/ isFalsyUrl(getApiUrl(Cur)) /\ (Start(t, Undefined) \/ RestartSleep(t))
                \/ StartExistingProbe(t, FALSE))
          => (/\ status' = "error" /\ lastError' = CliNotFoundMessage
              /\ NonEmptyMessage(lastError')
              /\ calls'[t].pc = "idle" /\ returned' \in {"start", "restart"}
              /\ UNCHANGED <<procs, childProcess, detectedPort>>)]_vars

\* restart() has ended in error because no binary was resolved.
C14_Witness == C14_NoBinary /\ returned = "restart" /\ status = "error" /\ startCount = 2

\* The i-th override value names a regular file without the execute permission.
C15_BadOverride(i) ==
  /\ Boolean(binEnv.envPaths[i])
  /\ binEnv.platform # "win32"
  /\ \E f \in binEnv.files : f.path = binEnv.envPaths[i] /\ f.isFile /\ ~f.xok

\* An override environment value names a file that is not executable.
C15_OverrideIsNotExecutable == \E i \in 1..Len(binEnv.envPaths) : C15_BadOverride(i)

\* C15: if a binary override environment value points at a file that is not
\* executable, isCliAvailable() returns false and start() ends in error without
\* spawning.
C15_BadOverrideUnavailable ==
  (IsSpawn /\ ~useConfiguredUrl /\ C15_OverrideIsNotExecutable) =>
    /\ ~cliAvailable
    /\ procs = <<>>
    /\ returned \in {"start", "restart"} => status = "error"

\* The step in which a caller enters restart().
C16_RestartEntered == \E t \in Threads : calls[t].op = "none" /\ calls'[t].op = "restart"

\* C16: each restart() call increases restartCount by exactly 1, at its entry,
\* whatever the stop and the start it performs do afterwards (the count is the
\* same when restart() returns, also in error); no other step changes it.
C16_RestartCountsOnce ==
  [][/\ C16_RestartEntered => restartCount' = restartCount + 1
     /\ ~C16_RestartEntered => restartCount' = restartCount]_vars

\* restart() has returned after its start() ended in error.
C16_Witness == returned = "restart" /\ status = "error" /\ restartCount = 1 /\ ~useConfiguredUrl

\* C17: setWorkingDirectory(path) never changes status, lastError, the process
\* or server handle, detectedPort, the health timer or the counters, in either
\* mode and either manager: with an empty or unchanged path it changes nothing;
\* with a different non-empty path it only replaces the working directory with
\* the trimmed path.  It resolves with success = true and restarted = false.
C17_SetWorkingDirectoryFrame ==
  [][\A newPath \in PathArgs : SetWorkingDirectory(newPath) =>
       /\ UNCHANGED <<status, lastError, childProcess, childKilled, procs, server, servers,
                      detectedPort, apiPrefix, apiPrefixDetected, lastExitCode,
                      healthCheckInterval, activeTimers, startCount, restartCount,
                      managedApiUrlOverride, cliMissing, calls, inflight>>
       /\ workingDirectory' = IF isNonBlankString(newPath) THEN trim(newPath)
                              ELSE workingDirectory
       /\ (~isNonBlankString(newPath) \/ trim(newPath) = workingDirectory)
            => UNCHANGED mgrVars
       /\ Len(result') = 1
       /\ result'[1].success /\ ~result'[1].restarted
       /\ result'[1].path = workingDirectory']_vars

\* setWorkingDirectory has replaced the directory while the manager was
\* connected to the process it spawned.
C17_Witness ==
  /\ returned = "setWorkingDirectory" /\ workingDirectory = <<"/w2">>
  /\ status = "connected" /\ childProcess # NoProc /\ activeTimers # {}
  /\ result = <<[success |-> TRUE, restarted |-> FALSE, path |-> <<"/w2">>]>>

\* The status the manager had just before the i-th call of the step.
C18_Before(i) == IF i = 1 THEN status ELSE notified'[i - 1].status

\* C18: a callback registered with onStatusChange is called once at
\* registration with the current status; afterwards, while it is registered,
\* it is called exactly once for every status transition, in order and with
\* the new status (so each call carries a status that differs from the one
\* before it, and the last one carries the status the step leaves); it is not
\* called when it is not registered.
C18_CallbackPerTransition ==
  [][\A cb \in Callbacks :
       /\ OnStatusChange(cb) =>
            notified' = <<[cb |-> cb, status |-> status, error |-> lastError]>>
       /\ (cb \in listeners /\ ~OnStatusChange(cb)) =>
            /\ \A i \in 1..Len(notified') : notified'[i].status # C18_Before(i)
            /\ status' # status => notified' # <<>>
            /\ notified' # <<>> => notified'[Len(notified')].status = status'
       /\ (cb \notin listeners /\ ~OnStatusChange(cb)) => notified' = <<>>]_vars

\* The status and lastError the manager had just before the i-th call of the step.
C18_PairBefore(i) ==
  IF i = 1 THEN <<status, lastError>> ELSE <<notified'[i - 1].status, notified'[i - 1].error>>

\* C18 as amended: a callback registered with onStatusChange is called once at
\* registration with the current status and lastError; afterwards, while it is
\* registered, it is called exactly once for every change of status or of
\* lastError, in order, with the new status and error; it is not called when
\* it is not registered.
C18_CallbackPerChange ==
  [][\A cb \in Callbacks :
       /\ OnStatusChange(cb) =>
            notified' = <<[cb |-> cb, status |-> status, error |-> lastError]>>
       /\ (cb \in listeners /\ ~OnStatusChange(cb)) =>
            /\ \A i \in 1..Len(notified') :
                 <<notified'[i].status, notified'[i].error>> # C18_PairBefore(i)
            /\ <<status', lastError'>> # <<status, lastError>> => notified' # <<>>
            /\ notified' # <<>> =>
                 /\ notified'[Len(notified')].status = status'
                 /\ notified'[Len(notified')].error = lastError'
       /\ (cb \notin listeners /\ ~OnStatusChange(cb)) => notified' = <<>>]_vars

\* The registered callback was called twice in one step: the readiness timeout
\* set error, and the stop() that follows set disconnected.
C18_Witness ==
  /\ listeners # {} /\ Len(notified) = 2
  /\ notified[1].status = "error" /\ notified[1].error = NotReadyMessage
  /\ notified[2].status = "disconnected" /\ status = "disconnected"

\* With the non-executable overrides unset, resolveCliPath finds nothing.
C15_NothingElseResolves ==
  resolveCliPath([binEnv EXCEPT !.envPaths =
                    [i \in 1..Len(binEnv.envPaths) |->
                       IF C15_BadOverride(i) THEN Undefined ELSE binEnv.envPaths[i]]])
    = Undefined

\* C15 as amended: if a binary override environment value points at a file that
\* is not executable and no other candidate (another override, a well-known
\* path, the augmented PATH, the login shell) resolves, isCliAvailable() returns
\* false and start() ends in error without spawning.
C15_BadOverrideAloneUnavailable ==
  (IsSpawn /\ ~useConfiguredUrl /\ C15_OverrideIsNotExecutable /\ C15_NothingElseResolves) =>
    /\ ~cliAvailable
    /\ procs = <<>>
    /\ returned \in {"start", "restart"} => status = "error" /\ lastError = CliNotFoundMessage

\* start() has ended in error on the machine whose only candidate is the
\* non-executable override.
C15_Witness ==
  /\ IsSpawn /\ ~useConfiguredUrl /\ binEnv = OverrideNotExecutable
  /\ C15_OverrideIsNotExecutable /\ C15_NothingElseResolves
  /\ returned = "start" /\ status = "error" /\ procs = <<>>

\* No call has rejected.
C19_NoRejection == returned # "rejected"

\* The step is the end of a start() that failed at once: it returns to the
\* caller with status error and a message.
C19_EndsInError(t) ==
  /\ status' = "error" /\ NonEmptyMessage(lastError')
  /\ calls'[t].pc = "idle" /\ returned' \in {"start", "restart"}

C20_ConnectedOnlyByProbe ==
  [][/\ (IsSpawn /\ status # "connected" /\ status' = "connected") =>
          \/ \E t \in Threads :
               \/ StartExternalProbe(t, TRUE)
               \/ StartExistingProbe(t, TRUE)
               \/ \E i \in 1..Len(API_PREFIX_CANDIDATES) : StartReady(t, API_PREFIX_CANDIDATES[i])
          \/ HealthResult(TRUE)
     /\ ~UNCHANGED <<status, lastError, calls, inflight, healthCheckInterval, activeTimers>>
          => \A text \in LogTexts : ~ChildOutput(text)]_vars

\* The process printed its URL under /api while start() was waiting for
\* readiness: the prefix is recorded and status is still connecting.
C20_Witness ==
  /\ IsSpawn /\ ~useConfiguredUrl /\ status = "connecting"
  /\ apiPrefixDetected /\ apiPrefix = <<"/", "api">> /\ detectedPort # NoPort

\* Every response of the input is a 200 response with content-type text/html.
C21_OnlyHtml200 ==
  CASE input.kind = "checkReady" -> \A i \in 1..Len(input.responses) : input.responses[i] = Html200
    [] input.kind = "checkHealth" -> input.response = Html200
    [] input.kind = "waitForReady" ->
         \A r \in 1..Len(input.rounds) : \A i \in 1..Len(input.rounds[r]) :
           input.rounds[r][i] = Html200
    [] OTHER -> FALSE

\* C21: a 200 response whose content type is text/html makes the probe return
\* false, in checkReady, in checkHealth and in the SDK-based manager's
\* waitForReady.
C21_HtmlRejected ==
  (output # <<>> /\ C21_OnlyHtml200) =>
    CASE input.kind = "checkReady" -> ~output[1].value
      [] input.kind = "checkHealth" -> ~output[1]
      [] input.kind = "waitForReady" -> ~output[1].ok

\* C22: start() never ends in connected with a base URL on a port that a
\* listener other than the spawned process holds.
C22_NeverAttachedToForeign ==
  (IsSpawn /\ ~useConfiguredUrl /\ returned \in {"start", "restart"} /\ status = "connected")
    => detectedPort \notin tcp.foreign

C24_ErrorOnlyFromConnecting ==
  [][(IsSpawn /\ status # "error" /\ status' = "error") => status = "connecting"]_vars

\* C25: in managed mode, a start() that finds a last known base URL probes it
\* before anything else, and when that full readiness probe succeeds it sets
\* connected, starts the health monitor anew and returns: no port is chosen and
\* no process is spawned.
C25_ExistingInstanceReused ==
  [][\A t \in Threads :
       /\ (IsSpawn /\ ~useConfiguredUrl /\ ~isFalsyUrl(getApiUrl(Cur))
             /\ (Start(t, Undefined) \/ RestartSleep(t)))
            => (calls'[t].pc = "start_existing" /\ UNCHANGED <<procs, childProcess, detectedPort>>)
       /\ (IsSpawn /\ calls[t].pc = "start_existing" /\ StartExistingProbe(t, TRUE))
            => /\ status' = "connected" /\ lastError' = Undefined
               /\ healthCheckInterval' # NoTimer /\ activeTimers' = {healthCheckInterval'}
               /\ calls'[t].pc = "idle" /\ returned' \in {"start", "restart"}
               /\ UNCHANGED <<procs, childProcess, childKilled, detectedPort>>]_vars

\* A second start() returned connected to the process the first one spawned.
C25_Witness ==
  /\ IsSpawn /\ ~useConfiguredUrl /\ returned = "start" /\ startCount = 2
  /\ status = "connected" /\ Len(procs) = 1 /\ procs[1].state = "running"
  /\ detectedPort # NoPort /\ healthCheckInterval # NoTimer

\* C26: two managers constructed in the same program do not interfere: a step
\* that changes the state of one (status, lastError, process handle,
\* detectedPort, prefix, timer, counters, processes, calls) leaves the state of
\* the other as it was.
C26_NoInterference ==
  [][/\ other' # other => UNCHANGED <<mgrVars, inflight, calls>>
     /\ ~UNCHANGED <<mgrVars, inflight, calls>> => other' = other]_vars

\* The second manager was stopped after it had been connected to its own
\* process, while the first stays connected to its own.
C26_Witness ==
  /\ status = "connected" /\ childProcess # NoProc /\ healthCheckInterval # NoTimer
  /\ other.m.status = "disconnected" /\ other.m.apiPrefixDetected
  /\ other.m.childProcess = NoProc /\ Len(other.m.procs) = 1
  /\ other.m.startCount = 1 /\ other.m.activeTimers = {}

\* C27: in stop(), when the process whose handle is held has not exited by the
\* end of the grace period, the continuation of stop() sends it the force-kill
\* signal.
C27_ForceKillAfterGrace ==
  [][\A t \in Threads :
       (/\ IsSpawn /\ calls[t].pc = "stop_grace"
        /\ childProcess # NoProc /\ procs[childProcess].state = "running"
        /\ StopAfterGrace(t))
       => procs'[childProcess].sigkill]_vars

\* C28: with overlapping start() and restart() calls in managed mode, no
\* process is spawned while another process the manager spawned is alive.
C28_NoConcurrentSpawn ==
  [][\A t \in Threads :
       (/\ IsSpawn /\ ~useConfiguredUrl
        /\ calls[t].pc = "start_port" /\ Len(procs') > Len(procs)
        /\ procs'[Len(procs')].state = "running"
        /\ \E u \in Threads \ {t} : calls[u].op \in {"start", "restart"})
       => LiveProcs = {}]_vars

\* C29: when stop() has just returned, the result of a health probe that was in
\* flight when stop() ran changes neither status nor lastError.
C29_StaleTickIgnored ==
  [][(IsSpawn /\ returned = "stop" /\ inflight > 0 /\ \E h \in BOOLEAN : HealthResult(h))
       => UNCHANGED <<status, lastError>>]_vars

\* C30: the exit of a process that is not the manager's current process (its
\* handle was released by stop(), or replaced by a later spawn) changes
\* neither status nor the handle and detectedPort of the current process.
C30_StaleExitIgnored ==
  [][(IsSpawn /\ procs' # procs /\ ~UNCHANGED <<status, childProcess, detectedPort>>) =>
       \A p \in 1..Len(procs), code \in ExitCodes : ~(p # childProcess /\ ChildExit(p, code))]_vars
\* C31: in the process-spawning manager, once status is connected and the
\* service answers no probe any more and the caller calls no more, status
\* eventually becomes disconnected (the health timer and the probes being
\* scheduled fairly).
C31_SilentServiceDemoted == (silent /\ status = "connected") ~> (status = "disconnected")

\* C32: every start() call of the process-spawning manager returns (its
\* probes, its readiness wait and the stop() it awaits all end), and when it
\* returns status is connected, error or disconnected, never connecting, in
\* external and in managed mode.
C32_InStart(t) ==
  \/ calls[t].pc \in {"start_external", "start_existing", "start_port", "start_wait"}
  \/ calls[t].pc = "stop_grace" /\ calls[t].ret = "caller" /\ calls[t].op # "stop"

C32_StartTerminates ==
  /\ [](returned \in {"start", "restart"} => status \in {"connected", "error", "disconnected"})
  /\ (\E t \in Threads : C32_InStart(t)) ~> (\A t \in Threads : calls[t].pc = "idle")

\* start() has returned after its readiness wait ran out and its stop() ended.
C32_Witness ==
  /\ returned = "start" /\ status = "disconnected"
  /\ startCount = 1 /\ Len(procs) = 1 /\ lastError = Undefined

\* C33: however many times start() is called on one manager while the service
\* binary is missing, the notification that tells the user to install it is
\* shown at most once.
C33_NotifiedAtMostOnce == shown <= 1

\* C34: in the process-spawning manager, once a probe has confirmed the API
\* prefix of the running service (status is connected, the prefix is marked
\* detected, the child is held), text the process prints later does not change
\* apiPrefix nor the URL getApiUrl() returns.
C34_ScrapedPrefixDiscarded ==
  [][(/\ calls' = calls /\ returned' = "none" /\ inflight' = inflight /\ procs' = procs
      /\ IsSpawn /\ ~useConfiguredUrl
      /\ status = "connected" /\ apiPrefixDetected /\ childProcess # NoProc)
     => (apiPrefix' = apiPrefix /\ getApiUrl(Cur)' = getApiUrl(Cur))]_vars

\* C35: in the process-spawning manager, whatever the process prints, a step
\* that scrapes its output (no call moves or returns, no process exits) leaves a detected
\* port as it is, and apiPrefix is '' or '/api' in every reachable state.
C35_FirstPortWins ==
  /\ [](IsSpawn => apiPrefix \in {<<>>, <<"/", "api">>})
  /\ [][(/\ calls' = calls /\ returned' = "none" /\ procs' = procs
         /\ IsSpawn /\ detectedPort # NoPort)
        => detectedPort' = detectedPort]_vars

\* The output was scraped while the port was known: the prefix '/api' is in
\* place before any probe has answered.
C35_Witness ==
  /\ IsSpawn /\ status = "connecting" /\ \E t \in Threads : calls[t].pc = "start_wait"
  /\ detectedPort = DEFAULT_OPENCODE_PORT
  /\ apiPrefix = <<"/", "api">> /\ apiPrefixDetected

\* C36: checkReady returns true exactly when each of /config,
\* /config/providers, /agent and /session/status answers with a success status
\* and a JSON content type; it requests them in that order and stops at the
\* first that fails, times out or throws, requesting none of the later ones.
C36_Passes(response) == response \in {Json200, JsonUpper200}

C36_FirstFailure(responses) ==
  IF \E i \in 1..Len(responses) : ~C36_Passes(responses[i])
  THEN CHOOSE i \in 1..Len(responses) :
         ~C36_Passes(responses[i]) /\ \A j \in 1..(i - 1) : C36_Passes(responses[j])
  ELSE Len(responses)

C36_CheckReadyAllOrNothing ==
  (input.kind = "checkReady" /\ output # <<>>) =>
    /\ output[1].value = (\A i \in 1..Len(READY_TARGETS) : C36_Passes(input.responses[i]))
    /\ output[1].requested = SubSeq(READY_TARGETS, 1, C36_FirstFailure(input.responses))
    /\ READY_TARGETS = << <<"/config">>, <<"/config/providers">>, <<"/agent">>, <<"/session/status">> >>

\* checkReady returned false at /agent, which timed out, after two passing
\* endpoints, and /session/status, which would pass, was not requested.
C36_Witness ==
  /\ input.kind = "checkReady" /\ output # <<>>
  /\ input.responses = <<Json200, JsonUpper200, FetchThrew, Json200>>
  /\ ~output[1].value /\ Len(output[1].requested) = 3

\* C37: the candidates of the active probe are '' then '/api', in that
\* order, and when waitForOpenCodeReadyAtPort returns true the prefix is marked
\* detected and apiPrefix is the first candidate that passed in the round that
\* ended the wait: '' when both pass, whatever the output had suggested.
C37_PassingCandidates(round) ==
  {i \in 1..Len(round) : \A j \in 1..Len(round[i]) : C36_Passes(round[i][j])}

C37_DecidingRound(rounds) ==
  CHOOSE k \in 1..Len(rounds) :
    /\ C37_PassingCandidates(rounds[k]) # {}
    /\ \A h \in 1..(k - 1) : C37_PassingCandidates(rounds[h]) = {}

C37_FirstPassing(round) ==
  CHOOSE i \in C37_PassingCandidates(round) : \A j \in C37_PassingCandidates(round) : i <= j

C37_FirstPassingCandidateWins ==
  (input.kind = "waitForOpenCodeReadyAtPort" /\ output = <<TRUE>>) =>
    /\ API_PREFIX_CANDIDATES = << <<>>, <<"/", "api">> >>
    /\ \E k \in 1..Len(input.rounds) : C37_PassingCandidates(input.rounds[k]) # {}
    /\ apiPrefixDetected
    /\ apiPrefix =
         API_PREFIX_CANDIDATES[C37_FirstPassing(input.rounds[C37_DecidingRound(input.rounds)])]

\* Both candidates pass in the second round, after the output had suggested
\* '/api': the wait returned true with the prefix ''.
C37_Witness ==
  /\ input.kind = "waitForOpenCodeReadyAtPort" /\ output = <<TRUE>>
  /\ input.scraped /\ Len(input.rounds) = 2
  /\ C37_PassingCandidates(input.rounds[1]) = {}
  /\ C37_PassingCandidates(input.rounds[2]) = {1, 2}
  /\ apiPrefix = <<>> /\ apiPrefixDetected

\* C38: resolveCliPath returns a path only if it is a regular file that is
\* executable (with the execute permission unless the platform is Windows); it
\* returns the first such candidate in the order environment overrides,
\* well-known install paths, entries of the augmented PATH, shell lookup; it
\* returns null exactly when no candidate qualifies.
C38_Qualifies(e, filePath) ==
  \E f \in e.files : f.path = filePath /\ f.isFile /\ (e.platform # "win32" => f.xok)

C38_Overrides(e) == SelectSeq(e.envPaths, LAMBDA v : v # Undefined /\ v # <<>>)

C38_PathEntries(e) ==
  LET directories == SelectSeq(e.pathDirs, LAMBDA d : d # <<>>)
  IN [i \in 1..Len(directories) |-> directories[i] \o <<"/">> \o binaryName(e.platform)]

\* The last word each shell that runs and succeeds prints, on a platform that
\* is not Windows.
C38_ShellAnswers(e) ==
  LET answered == SelectSeq(e.shells, LAMBDA sh : sh.executable /\ sh.status = 0 /\ sh.stdout # <<>>)
  IN IF e.platform = "win32" THEN <<>>
     ELSE [i \in 1..Len(answered) |-> <<answered[i].stdout[Len(answered[i].stdout)]>>]

C38_First(e, candidates) ==
  IF \E i \in 1..Len(candidates) : C38_Qualifies(e, candidates[i])
  THEN candidates[CHOOSE i \in 1..Len(candidates) :
                    /\ C38_Qualifies(e, candidates[i])
                    /\ \A j \in 1..(i - 1) : ~C38_Qualifies(e, candidates[j])]
  ELSE Undefined

C38_ClaimedOrder(e) ==
  C38_Overrides(e) \o WellKnownBinPaths \o C38_PathEntries(e) \o C38_ShellAnswers(e)

C38_FirstCandidateInOrder ==
  (input.kind = "resolveCliPath" /\ output # <<>>) =>
    /\ output[1] # Undefined => C38_Qualifies(binEnv, output[1])
    /\ output[1] = C38_First(binEnv, C38_ClaimedOrder(binEnv))

\* C38 as amended: the same, the order being: environment overrides and
\* well-known install paths, on Windows each followed by itself with '.exe'
\* appended unless it ends in '.exe' already; on Windows the paths `where
\* opencode` prints; entries of the augmented PATH; shell lookup (not on Windows).
C38_WithExe(e, candidates) ==
  IF e.platform # "win32" THEN candidates
  ELSE [i \in 1..(2 * Len(candidates)) |->
          LET candidate == candidates[(i + 1) \div 2]
          IN IF i % 2 = 1 \/ endsWith(toLowerCase(candidate), <<".exe">>)
             THEN candidate
             ELSE candidate \o <<".exe">>]

C38_PlatformOrder(e) ==
  C38_WithExe(e, C38_Overrides(e) \o WellKnownBinPaths)
    \o (IF e.platform = "win32" THEN e.whereLines ELSE <<>>)
    \o C38_PathEntries(e) \o C38_ShellAnswers(e)

C38_FirstCandidateInPlatformOrder ==
  (input.kind = "resolveCliPath" /\ output # <<>>) =>
    /\ output[1] # Undefined => C38_Qualifies(binEnv, output[1])
    /\ output[1] = C38_First(binEnv, C38_PlatformOrder(binEnv))

\* On Windows resolveCliPath has returned the path `where` printed, on a machine
\* whose first PATH directory holds opencode.exe.
C38_Witness ==
  /\ input.kind = "resolveCliPath" /\ output = <<WherePath>>
  /\ binEnv.platform = "win32"
  /\ C38_Qualifies(binEnv, join(CliPathDirs[2], binaryName("win32")))

\* C39 (as stated): after any sequence of connect, disconnect and clearHistory
\* calls, recentConnections holds at most 10 entries, no two entries have the
\* same url, and the most recently connected url is first.
C39_AtMostTenDistinct ==
  LET rc == store.recentConnections
  IN /\ Len(rc) <= MAX_RECENT
     /\ \A i, j \in 1..Len(rc) : i # j => rc[i].url # rc[j].url
C39_RecentDistinctLatestFirst ==
  /\ C39_AtMostTenDistinct
  /\ store.lastConnected # Undefined =>
       /\ store.recentConnections # <<>>
       /\ store.recentConnections[1].url = store.lastConnected

\* C39 (amended): recentConnections holds at most 10 entries, no two entries
\* have the same url, and, while the list is not empty, the most recently
\* connected url is first.
C39_RecentDistinctLatestFirstUnlessCleared ==
  /\ C39_AtMostTenDistinct
  /\ store.recentConnections # <<>> =>
       store.recentConnections[1].url = store.lastConnected

\* A connect that found the list full and its url, typed differently, already
\* in it: the entry moved to the front and the list still has ten entries.
C39_Witness ==
  /\ store.last = [op |-> "connect", cause |-> "ok", value |-> TRUE]
  /\ Len(store.recentConnections) = MAX_RECENT
  /\ store.recentConnections[1].url = <<"https://", "a.example">>
  /\ store.recentConnections[2].url = <<"https://", "b.example">>
  /\ store.recentConnections[2].token = <<"t1">>
  /\ store.recentConnections[MAX_RECENT].url = Host(MAX_RECENT - 2)

\* C40: a connect() call that fails (non-HTTPS url, timeout, non-success
\* response, server not ready) returns false, leaves currentConnection and
\* recentConnections as they were, and at its return connectionError is a
\* non-empty message and isConnecting is false.
C40_Failures == {"http", "timeout", "status", "notReady"}
C40_FailedConnectChangesNothing ==
  [][(store' # store /\ store'.last.op = "connect" /\ store'.last.cause \in C40_Failures) =>
       /\ store'.last.value = FALSE
       /\ store'.currentConnection = store.currentConnection
       /\ store'.recentConnections = store.recentConnections
       /\ store'.connectionError # Undefined
       /\ Len(store'.connectionError) > 0 /\ store'.connectionError[1] # ""
       /\ store'.isConnecting = FALSE]_vars

\* A connect that timed out while the store held a connection and a history.
C40_Witness ==
  /\ store.last = [op |-> "connect", cause |-> "timeout", value |-> FALSE]
  /\ store.connectionError = TimedOutMessage
  /\ store.currentConnection # NoConnection
  /\ Len(store.recentConnections) = MAX_RECENT
  /\ ~store.isConnecting
====
